---- MODULE Spec2Model ----
\* A model of the execution core of cucumber-rust: Runner (src/src/runner.rs),
\* its StatsCollector, and the event stream it produces; and of the scenario
\* expansion of Steps::run_scenarios (src/src/lib.rs).
EXTENDS Integers, Sequences, FiniteSets, TLC

\* ---------------------------------------------------------------- bounds

\* Data rows of the examples tables given to Steps::run_scenarios, at most.
MaxTableRows == 2

\* Data rows of the examples table of the scenario outline.
NumRows == 2
\* Largest configured step timeout, in ticks (step_timeout is None or 1..MaxTimeout).
MaxTimeout == 2
\* A handler completes after 0..MaxTimeout + MaxExtraDelay ticks.
MaxExtraDelay == 1

\* Polls for which the future of an asynchronous step function of Steps is
\* pending, at most.
MaxSuspends == 1

\* ------------------------------------------------------- the spec tree

Step(ty, value) == [ty |-> ty, value |-> value]

NoExamples == [present |-> FALSE, header |-> <<>>, rows |-> <<>>]

Examples(header, rows) == [present |-> TRUE, header |-> header, rows |-> rows]

Scenario(name, steps, examples) == [name |-> name, steps |-> steps, examples |-> examples]

Rule(name, scenarios) == [name |-> name, scenarios |-> scenarios]

NoBackground == [present |-> FALSE, steps |-> <<>>]

Background(steps) == [present |-> TRUE, steps |-> steps]

Feature(name, background, scenarios, rules) ==
    [name |-> name, background |-> background, scenarios |-> scenarios, rules |-> rules]

StepBg == Step("Given", <<"a", "background">>)

StepHave == Step("Given", <<"I", "have", "<count>", "items">>)

StepEat == Step("When", <<"I", "eat">>)

StepUnknown == Step("Then", <<"nobody", "registered", "this">>)

CountRows == [i \in 1..NumRows |-> <<ToString(i)>>]

\* Feature F1: no background; a scenario outline with NumRows rows, a scenario
\* whose first step has no handler, a scenario with no steps at all, and a
\* rule with two scenarios.
FeatureF1 ==
    Feature("F1", NoBackground,
            << Scenario("S1 <count>", <<StepHave>>, Examples(<<"count">>, CountRows)),
               Scenario("S2", <<StepUnknown, StepEat>>, NoExamples),
               Scenario("S3", <<>>, NoExamples) >>,
            << Rule("R1", << Scenario("S4", <<StepEat>>, NoExamples),
                             Scenario("S5", <<StepEat>>, NoExamples) >>) >>)

\* Feature F2: a background, and a scenario whose last step has no handler.
FeatureF2 ==
    Feature("F2", Background(<<StepBg>>),
            << Scenario("S6", <<StepEat, StepUnknown>>, NoExamples) >>,
            << >>)

\* Feature F3: a background, a rule without scenarios and nothing else.
FeatureF3 ==
    Feature("F3", Background(<<StepBg>>), << >>, << Rule("R2", << >>) >>)

Suites == { <<FeatureF1, FeatureF2>>, <<FeatureF3>> }

\* ------------------------------------------------- the step resolver

\* A registered step: exact text ("basic") or a pattern ("regex") whose token
\* "(.*)" captures one token of the step text.
Registered(kind, ty, pattern, fn) == [kind |-> kind, ty |-> ty, pattern |-> pattern, fn |-> fn]

StepsCollection ==
    << Registered("basic", "Given", <<"a", "background">>, "Sync"),
       Registered("regex", "Given", <<"I", "have", "(.*)", "items">>, "Async"),
       Registered("basic", "When", <<"I", "eat">>, "Async"),
       Registered("regex", "When", <<"I", "(.*)">>, "Sync") >>

RegexMatches(pattern, value) ==
    /\ Len(pattern) = Len(value)
    /\ \A k \in 1..Len(pattern) : pattern[k] = "(.*)" \/ pattern[k] = value[k]

RegexCaptures(pattern, value) ==
    LET idx == {k \in 1..Len(pattern) : pattern[k] = "(.*)"}
        RECURSIVE Collect(_)
        Collect(k) == IF k > Len(pattern) THEN <<>>
                      ELSE (IF k \in idx THEN <<value[k]>> ELSE <<>>) \o Collect(k + 1)
    IN Collect(1)

NoFunction == [some |-> FALSE, shape |-> "", captures |-> <<>>]

\* StepsCollection::resolve: an exact match wins over a pattern match; among
\* pattern matches the first registered wins; no match is None.
resolve(collection, step) ==
    LET basics == {k \in 1..Len(collection) :
                      /\ collection[k].kind = "basic"
                      /\ collection[k].ty = step.ty
                      /\ collection[k].pattern = step.value}
        regexes == {k \in 1..Len(collection) :
                      /\ collection[k].kind = "regex"
                      /\ collection[k].ty = step.ty
                      /\ RegexMatches(collection[k].pattern, step.value)}
        Min(S) == CHOOSE m \in S : \A n \in S : m <= n
    IN IF basics # {}
       THEN [some |-> TRUE, shape |-> "Basic" \o collection[Min(basics)].fn, captures |-> <<>>]
       ELSE IF regexes # {}
       THEN [some |-> TRUE, shape |-> "Regex" \o collection[Min(regexes)].fn,
             captures |-> RegexCaptures(collection[Min(regexes)].pattern, step.value)]
       ELSE NoFunction

\* ---------------------------------------------------- example values

ExampleValues_empty == [keys |-> <<>>, values |-> <<>>]

ExampleValues_is_empty(example) == example.keys = <<>>

\* ExampleValues::from_examples: one ExampleValues per data row; a scenario
\* without examples yields the single empty ExampleValues.
ExampleValues_from_examples(examples) ==
    IF ~examples.present THEN <<ExampleValues_empty>>
    ELSE [i \in 1..Len(examples.rows) |-> [keys |-> examples.header, values |-> examples.rows[i]]]

\* ExampleValues::insert_values: every token <key> of the text is replaced by
\* the row's value for that key.
ExampleValues_insert_values(example, value) ==
    LET Subst(tok) ==
            LET hits == {k \in 1..Len(example.keys) : tok = "<" \o example.keys[k] \o ">"}
            IN IF hits = {} THEN tok
               ELSE example.values[CHOOSE k \in hits : \A n \in hits : k <= n]
    IN [k \in 1..Len(value) |-> Subst(value[k])]

\* ------------------------------------------------------------ events

\* StepEvent
StepEvent_Starting == [type |-> "Starting"]

StepEvent_Unimplemented == [type |-> "Unimplemented"]

StepEvent_Skipped == [type |-> "Skipped"]

StepEvent_Passed == [type |-> "Passed"]

StepEvent_Failed(kind) == [type |-> "Failed", kind |-> kind]

\* ScenarioEvent
ScenarioEvent_Starting(example) == [type |-> "Starting", example |-> example]

ScenarioEvent_Background(step, event) == [type |-> "Background", step |-> step, event |-> event]

ScenarioEvent_Step(step, event) == [type |-> "Step", step |-> step, event |-> event]

ScenarioEvent_Skipped == [type |-> "Skipped"]

ScenarioEvent_Passed == [type |-> "Passed"]

ScenarioEvent_Failed(kind) == [type |-> "Failed", kind |-> kind]

\* RuleEvent
RuleEvent_Starting == [type |-> "Starting"]

RuleEvent_Scenario(scenario, event) == [type |-> "Scenario", scenario |-> scenario, event |-> event]

RuleEvent_Skipped == [type |-> "Skipped"]

RuleEvent_Passed == [type |-> "Passed"]

RuleEvent_Failed(kind) == [type |-> "Failed", kind |-> kind]

\* FeatureEvent
FeatureEvent_Starting == [type |-> "Starting"]

FeatureEvent_Scenario(scenario, event) == [type |-> "Scenario", scenario |-> scenario, event |-> event]

FeatureEvent_Rule(rule, event) == [type |-> "Rule", rule |-> rule, event |-> event]

FeatureEvent_Finished == [type |-> "Finished"]

\* CucumberEvent
CucumberEvent_Starting == [type |-> "Starting"]

CucumberEvent_Feature(feature, event) == [type |-> "Feature", feature |-> feature, event |-> event]

CucumberEvent_Finished(run_result) == [type |-> "Finished", result |-> run_result]

\* TestEvent, the outcome of one step invocation
TestEvent_Success(w) == [type |-> "Success", world |-> w]

TestEvent_Failure(kind) == [type |-> "Failure", kind |-> kind]

TestEvent_Skipped == [type |-> "Skipped"]

TestEvent_Unimplemented == [type |-> "Unimplemented"]

\* --------------------------------------------------- the step invoker

TEST_SKIPPED == "Cucumber: test skipped"

\* The payload of a panic: a String, a &str, or a value of another type.
Payloads ==
    { [type |-> "String", text |-> TEST_SKIPPED],
      [type |-> "str", text |-> TEST_SKIPPED],
      [type |-> "String", text |-> "assertion failed"],
      [type |-> "other", text |-> ""] }

NoPayload == [type |-> "other", text |-> ""]

MaxDelay == MaxTimeout + MaxExtraDelay

\* What a handler does when invoked: it returns the next World or panics, after
\* `delay` ticks which it spends either blocking the thread inside one poll or
\* suspended (awaiting). A synchronous handler cannot suspend.
Behaviours(shape) ==
    { b \in [end : {"return", "panic"}, payload : Payloads, delay : 0..MaxDelay,
             blocking : BOOLEAN] :
        /\ (b.end = "return" => b.payload = NoPayload)
        /\ (shape \in {"BasicSync", "RegexSync"} => b.blocking) }

NoBehaviour == [end |-> "return", payload |-> NoPayload, delay |-> 0, blocking |-> TRUE]

\* A variant of coerce_error that reads only String payloads.
coerce_error_StringOnly(err) ==
    IF err.type = "String" THEN err.text
    ELSE "(Could not resolve panic payload)"

coerce_error(err) ==
    IF err.type = "String" THEN err.text
    ELSE IF err.type = "str" THEN err.text
    ELSE "(Could not resolve panic payload)"

\* The World a handler returns: the World it was given, marked with the step.
HandlerWorld(world, step) == Append(world, step.value)

\* The step future's output: Ok(world) or Err(TestError::PanicError(payload)).
step_future(beh, world, step) ==
    IF beh.end = "return" THEN [ok |-> TRUE, world |-> HandlerWorld(world, step)]
    ELSE [ok |-> FALSE, error |-> "PanicError", payload |-> beh.payload]

NoTimeout == [some |-> FALSE, ticks |-> 0]

SomeTimeout(ticks) == [some |-> TRUE, ticks |-> ticks]

\* futures::future::select(timeout, step_future): the first poll polls the timer
\* (pending: its duration is positive) and then the step future, which is ready
\* at once if the handler ran to completion inside that poll (it returned,
\* panicked or blocked the thread) and pending if it suspended. From then on the
\* timer is polled first at every wake-up.
select_timeout_first(timeout, beh) ==
    /\ ~beh.blocking
    /\ beh.delay > 0
    /\ timeout.ticks <= beh.delay

\* A variant of race in which the timer wins against every handler that
\* suspends, however early the handler completes.
race_TimerBeatsSuspended(timeout, beh, world, step) ==
    IF timeout.some /\ ~beh.blocking /\ beh.delay > 0
    THEN [ok |-> FALSE, error |-> "TimedOut", payload |-> NoPayload]
    ELSE step_future(beh, world, step)

race(timeout, beh, world, step) ==
    IF timeout.some /\ select_timeout_first(timeout, beh)
    THEN [ok |-> FALSE, error |-> "TimedOut", payload |-> NoPayload]
    ELSE step_future(beh, world, step)

classify(result) ==
    IF result.ok THEN TestEvent_Success(result.world)
    ELSE IF result.error = "TimedOut" THEN TestEvent_Failure("TimedOut")
    ELSE IF coerce_error(result.payload) = TEST_SKIPPED THEN TestEvent_Skipped
    ELSE TestEvent_Failure("Panic")

\* A variant of run_step that reports a step without a registered function as
\* a panic.
run_step_UnresolvedPanics(collection, timeout, step, world, beh) ==
    LET func == resolve(collection, step)
    IN IF ~func.some THEN TestEvent_Failure("Panic")
       ELSE classify(race(timeout, beh, world, step))

\* Runner::run_step
run_step(collection, timeout, step, world, beh) ==
    LET func == resolve(collection, step)
    IN IF ~func.some THEN TestEvent_Unimplemented
       ELSE classify(race(timeout, beh, world, step))

\* ------------------------------------------------- the stats collector

Stats_default == [total |-> 0, skipped |-> 0, passed |-> 0, failed |-> 0, timed_out |-> 0]

\* A variant of Stats::failed that does not look at timed_out.
Stats_failed_IgnoreTimedOut(stats) == stats.failed > 0

Stats_failed(stats) == stats.failed > 0 \/ stats.timed_out > 0

StatsCollector_new ==
    [features |-> Stats_default, rules |-> Stats_default, scenarios |-> Stats_default,
     steps |-> Stats_default, failed_scenarios |-> <<>>, timed_out_scenarios |-> <<>>]

Bump(collector, level, counter) ==
    [collector EXCEPT ![level][counter] = @ + 1]

handle_step_event(collector, event) ==
    LET counted == Bump(collector, "steps", "total")
    IN CASE event.type = "Starting" -> counted
         [] event.type = "Unimplemented" -> Bump(counted, "steps", "skipped")
         [] event.type = "Skipped" -> Bump(counted, "steps", "skipped")
         [] event.type = "Passed" -> Bump(counted, "steps", "passed")
         [] event.type = "Failed" /\ event.kind = "Panic" -> Bump(counted, "steps", "failed")
         [] event.type = "Failed" /\ event.kind = "TimedOut" -> Bump(counted, "steps", "timed_out")

handle_scenario_event(collector, scenario, event) ==
    CASE event.type = "Starting" -> Bump(collector, "scenarios", "total")
      [] event.type = "Background" -> handle_step_event(collector, event.event)
      [] event.type = "Step" -> handle_step_event(collector, event.event)
      [] event.type = "Skipped" -> Bump(collector, "scenarios", "skipped")
      [] event.type = "Passed" -> Bump(collector, "scenarios", "passed")
      [] event.type = "Failed" /\ event.kind = "Panic" ->
            [Bump(collector, "scenarios", "failed")
                EXCEPT !.failed_scenarios = Append(@, scenario)]
      [] event.type = "Failed" /\ event.kind = "TimedOut" ->
            Bump(collector, "scenarios", "timed_out")

\* A variant of handle_rule_event that does not pass the events of a rule's
\* scenarios on to handle_scenario_event.
handle_rule_event_NoScenarios(collector, event) ==
    CASE event.type = "Starting" -> Bump(collector, "rules", "total")
      [] event.type = "Scenario" -> collector
      [] event.type = "Skipped" -> Bump(collector, "rules", "skipped")
      [] event.type = "Passed" -> Bump(collector, "rules", "passed")
      [] event.type = "Failed" /\ event.kind = "Panic" -> Bump(collector, "rules", "failed")
      [] event.type = "Failed" /\ event.kind = "TimedOut" -> Bump(collector, "rules", "timed_out")

\* A variant of handle_rule_event that also counts a rule for every scenario
\* started under a rule.
handle_rule_event_CountsScenarios(collector, event) ==
    CASE event.type = "Starting" -> Bump(collector, "rules", "total")
      [] event.type = "Scenario" ->
            handle_scenario_event(
                IF event.event.type = "Starting" THEN Bump(collector, "rules", "total")
                ELSE collector,
                event.scenario, event.event)
      [] event.type = "Skipped" -> Bump(collector, "rules", "skipped")
      [] event.type = "Passed" -> Bump(collector, "rules", "passed")
      [] event.type = "Failed" /\ event.kind = "Panic" -> Bump(collector, "rules", "failed")
      [] event.type = "Failed" /\ event.kind = "TimedOut" -> Bump(collector, "rules", "timed_out")

handle_rule_event(collector, event) ==
    CASE event.type = "Starting" -> Bump(collector, "rules", "total")
      [] event.type = "Scenario" -> handle_scenario_event(collector, event.scenario, event.event)
      [] event.type = "Skipped" -> Bump(collector, "rules", "skipped")
      [] event.type = "Passed" -> Bump(collector, "rules", "passed")
      [] event.type = "Failed" /\ event.kind = "Panic" -> Bump(collector, "rules", "failed")
      [] event.type = "Failed" /\ event.kind = "TimedOut" -> Bump(collector, "rules", "timed_out")

handle_feature_event(collector, event) ==
    CASE event.type = "Starting" -> Bump(collector, "features", "total")
      [] event.type = "Scenario" -> handle_scenario_event(collector, event.scenario, event.event)
      [] event.type = "Rule" -> handle_rule_event(collector, event.event)
      [] OTHER -> collector

\* StatsCollector::collect (the clock readings started/elapsed are not modelled)
collect(collector) == collector

RunResult_failed(run_result) ==
    Stats_failed(run_result.features) \/ Stats_failed(run_result.scenarios)

\* -------------------------------------------------------- lifecycle hooks

\* Criteria: a scope and a predicate over (feature, optional rule, optional
\* scenario). The predicate is "*" (always) or the name of a node it accepts.
Criteria(context, tag) == [context |-> context, tag |-> tag]

Criteria_eval(criteria, feature_name, rule_name, scenario_name) ==
    \/ criteria.tag = "*"
    \/ criteria.tag \in {feature_name, rule_name, scenario_name}

BeforeHooks ==
    << Criteria("feature", "*"), Criteria("scenario", "*"), Criteria("rule", "R1"),
       Criteria("scenario", "S4"), Criteria("scenario", "F2") >>

AfterHooks ==
    << Criteria("scenario", "*"), Criteria("rule", "*"), Criteria("scenario", "S2"),
       Criteria("feature", "F1"), Criteria("scenario", "R1") >>

\* The scenario-name filter, a regular expression given by the names it matches.
NoFilter == [some |-> FALSE, matches |-> {}]

Filter(names) == [some |-> TRUE, matches |-> names]

Regex_is_match(regex, name) == name \in regex.matches

Filters == { NoFilter, Filter({"S2", "S3", "S5", "S6"}) }

\* ------------------------------------------------------------- the state

VARIABLES
    features,         \* Runner.features
    functions,        \* Runner.functions
    step_timeout,     \* Runner.step_timeout
    scenario_filter,  \* Runner.scenario_filter
    before,           \* Runner.before
    after,            \* Runner.after
    pc,               \* where the nested streams of Runner::run are suspended
    fi,               \* run: index of the feature being run
    si,               \* run_feature: index into the feature's scenario runs
    ri,               \* run_feature: index of the rule being run
    rsi,              \* run_rule: index of the rule's scenario being run
    hi,               \* index into before/after of the hook loop in progress
    sti,              \* run_scenario: index of the step in the loop in progress
    cur,              \* run_scenario's arguments: rule, scenario, example
    world,            \* run_scenario: `world`, an Option<W>
    is_success,       \* run_scenario: `is_success`
    result,           \* run_scenario: `result` of the step just run
    return_event,     \* run_rule: `return_event`
    stats,            \* run: the StatsCollector
    panic_hook,       \* the process-wide panic hook
    events,           \* the CucumberEvents yielded so far
    stream,           \* the ScenarioEvents yielded by the latest run_scenario stream
    run_start,        \* the position in events of that stream's first event
    hook_calls,       \* the lifecycle hooks awaited so far
    step_calls,       \* the run_step invocations so far
    last_call,        \* handler and behaviour of the run_step call just made
    rs_scenarios,     \* Steps::run_scenarios: `scenarios`
    rs_options,       \* Steps::run_scenarios: `options` (tag, filter)
    rs_pc,            \* Steps::run_scenarios: where its loops stand
    rs_si,            \* Steps::run_scenarios: index of the scenario of the outer loop
    rs_row,           \* Steps::run_scenarios: `i`, the index of the examples row
    futures,          \* Steps::run_scenarios: `futures`
    rs_result,        \* Steps::run_scenarios: its return value, once joined
    tasks,            \* the state of each run_scenario future of `futures`
    jp,               \* join_all: the index of the future being polled
    sr_files,         \* Steps::run: `feature_files`
    sr_bag,           \* the Steps: its test bags
    sr_default_ok,    \* whether W::default() returns
    sr_pc,            \* Steps::run: where its loops stand
    sr_fi,            \* Steps::run: index of the feature file
    sr_ri,            \* Steps::run: index of the rule (0: none)
    sr_is_success,    \* Steps::run: `is_success`
    visits,           \* the calls of the OutputVisitor and the helper functions
    test_calls,       \* the calls of step functions by run_test
    cap_timeout,      \* run_step: self.step_timeout, as the panic hook and the reader see it
    cap_beh,          \* run_step: what the handler of the step does
    cap_pc,           \* run_step: where the step's thread stands
    cap_elapsed,      \* start_point.elapsed() of the try_lock loop in progress, in ticks
    cap_lock,         \* the Mutex of the capture slot: "free" or held by another thread
    cap_slot,         \* the capture slot: the Option<PanicInfo> inside the Mutex
    cap_gave_up,      \* which of the two try_lock loops ended on the elapsed timeout
    cap_result        \* run_step: the TestEvent returned, with the PanicInfo of a failure

config == <<features, functions, step_timeout, scenario_filter, before, after>>

runner_vars ==
    <<features, functions, step_timeout, scenario_filter, before, after, pc, fi, si, ri,
      rsi, hi, sti, cur, world, is_success, result, return_event, stats, panic_hook,
      events, stream, run_start, hook_calls, step_calls, last_call>>

loop_vars == <<rs_scenarios, rs_options, rs_pc, rs_si, rs_row, futures>>

run_vars == <<sr_files, sr_bag, sr_default_ok, sr_pc, sr_fi, sr_ri, sr_is_success>>

exec_vars == <<rs_result, tasks, jp, visits, test_calls>>

steps_vars == <<loop_vars, run_vars, exec_vars>>

capture_vars ==
    <<cap_timeout, cap_beh, cap_pc, cap_elapsed, cap_lock, cap_slot, cap_gave_up, cap_result>>

vars == <<runner_vars, steps_vars, capture_vars>>

None == [some |-> FALSE]

Some(v) == [some |-> TRUE, value |-> v]

NoCur == [rule |-> 0, scenario |-> 0, example |-> ExampleValues_empty]

NoCall == [made |-> FALSE]

NoResult == [type |-> "None"]

\* No run_step call is looked at on its own.
CaptureIdle ==
    /\ cap_timeout = [some |-> FALSE, ticks |-> 0]
    /\ cap_beh = [end |-> "return"]
    /\ cap_pc = "idle"
    /\ cap_elapsed = 0
    /\ cap_lock = "free"
    /\ cap_slot = None
    /\ cap_gave_up = {}
    /\ cap_result = NoResult

\* Steps::run_scenarios is not in use.
StepsIdle ==
    /\ rs_scenarios = <<>>
    /\ rs_options = [tag |-> None, filter |-> None]
    /\ rs_pc = "idle"
    /\ rs_si = 1
    /\ rs_row = 0
    /\ futures = <<>>
    /\ rs_result = None
    /\ tasks = <<>>
    /\ jp = 0
    /\ sr_files = <<>>
    /\ sr_bag = {}
    /\ sr_default_ok = TRUE
    /\ sr_pc = "idle"
    /\ sr_fi = 1
    /\ sr_ri = 0
    /\ sr_is_success = TRUE
    /\ visits = <<>>
    /\ test_calls = <<>>

Init ==
    /\ CaptureIdle
    /\ StepsIdle
    /\ features \in Suites
    /\ functions = StepsCollection
    /\ step_timeout \in {NoTimeout} \cup {SomeTimeout(t) : t \in 1..MaxTimeout}
    /\ scenario_filter \in Filters
    /\ before = BeforeHooks
    /\ after = AfterHooks
    /\ pc = "run"
    /\ fi = 1
    /\ si = 1
    /\ ri = 1
    /\ rsi = 1
    /\ hi = 1
    /\ sti = 1
    /\ cur = NoCur
    /\ world = None
    /\ is_success = TRUE
    /\ result = NoResult
    /\ return_event = None
    /\ stats = StatsCollector_new
    /\ panic_hook = "default"
    /\ events = <<>>
    /\ stream = <<>>
    /\ run_start = 0
    /\ hook_calls = <<>>
    /\ step_calls = <<>>
    /\ last_call = NoCall

\* ------------------------------------------------------ reading the tree

ScenarioRef(f, r, s) == [feature |-> f, rule |-> r, scenario |-> s]

ScenarioNode(f, r, s) ==
    IF r = 0 THEN features[f].scenarios[s] ELSE features[f].rules[r].scenarios[s]

RuleName(f, r) == IF r = 0 THEN "" ELSE features[f].rules[r].name

CurRef == ScenarioRef(fi, cur.rule, cur.scenario)

CurScenario == ScenarioNode(fi, cur.rule, cur.scenario)

\* run_feature's loop over feature.scenarios, flattened: the scenarios that the
\* filter lets through, each once per ExampleValues of its examples.
RECURSIVE ScenarioRunsFrom(_, _, _)
ScenarioRunsFrom(feature, filter, s) ==
    IF s > Len(feature.scenarios) THEN <<>>
    ELSE LET scenario == feature.scenarios[s]
             examples == ExampleValues_from_examples(scenario.examples)
             runs == IF filter.some /\ ~Regex_is_match(filter, scenario.name) THEN <<>>
                     ELSE [x \in 1..Len(examples) |->
                              [scenario |-> s, row |-> x, example |-> examples[x]]]
         IN runs \o ScenarioRunsFrom(feature, filter, s + 1)

\* A variant of ScenarioRuns that lists the instances last to first.
ScenarioRuns_Reversed(feature, filter) ==
    LET runs == ScenarioRunsFrom(feature, filter, 1)
    IN [x \in 1..Len(runs) |-> runs[Len(runs) + 1 - x]]

ScenarioRuns(feature, filter) == ScenarioRunsFrom(feature, filter, 1)

\* The steps a scenario loop iterates over.
BackgroundSteps == IF features[fi].background.present THEN features[fi].background.steps ELSE <<>>

ScenarioSteps ==
    [k \in 1..Len(CurScenario.steps) |->
        IF ~ExampleValues_is_empty(cur.example)
        THEN [CurScenario.steps[k] EXCEPT
                 !.value = ExampleValues_insert_values(cur.example, @)]
        ELSE CurScenario.steps[k]]

LoopSteps(phase) == IF phase = "background" THEN BackgroundSteps ELSE ScenarioSteps

\* ------------------------------------------------------------- yielding

\* run: every FeatureEvent of the feature's stream is handed to the
\* StatsCollector and then yielded as CucumberEvent::Feature.
YieldFeatureEvent(event) ==
    /\ stats' = handle_feature_event(stats, event)
    /\ events' = Append(events, CucumberEvent_Feature(fi, event))

\* run_rule: the match on each ScenarioEvent that maintains `return_event`.
rule_return_event(previous, event) ==
    CASE event.type = "Failed" /\ event.kind = "Panic" -> Some(RuleEvent_Failed("Panic"))
      [] event.type = "Failed" /\ event.kind = "TimedOut" -> Some(RuleEvent_Failed("TimedOut"))
      [] event.type = "Passed" /\ ~previous.some -> Some(RuleEvent_Passed)
      [] event.type = "Skipped" /\ previous = Some(RuleEvent_Passed) -> Some(RuleEvent_Skipped)
      [] OTHER -> previous

\* A ScenarioEvent of run_scenario's stream, wrapped by the caller's loop:
\* run_feature (FeatureEvent::Scenario) or run_rule (RuleEvent::Scenario, itself
\* wrapped by run_feature in FeatureEvent::Rule).
YieldScenarioEvent(rule, scenario, event) ==
    /\ stream' = IF event.type = "Starting" THEN <<event>> ELSE Append(stream, event)
    /\ run_start' = IF event.type = "Starting" THEN Len(events) + 1 ELSE run_start
    /\ IF rule = 0
       THEN /\ YieldFeatureEvent(FeatureEvent_Scenario(scenario, event))
            /\ UNCHANGED return_event
       ELSE /\ return_event' = rule_return_event(return_event, event)
            /\ YieldFeatureEvent(FeatureEvent_Rule(rule, RuleEvent_Scenario(scenario, event)))

\* The first hook at or after `from` that has the scope and whose predicate
\* accepts the node; 0 when the loop runs to its end without awaiting a hook.
\* A variant of NextHook that does not evaluate the criteria of a hook.
NextHook_IgnoreCriteria(list, context, from, feature_name, rule_name, scenario_name) ==
    LET hits == {k \in from..Len(list) : list[k].context = context}
    IN IF hits = {} THEN 0 ELSE CHOOSE k \in hits : \A n \in hits : k <= n

\* A variant of NextHook that does not look at the scope of a hook.
NextHook_IgnoreContext(list, context, from, feature_name, rule_name, scenario_name) ==
    LET hits == {k \in from..Len(list) :
                    Criteria_eval(list[k], feature_name, rule_name, scenario_name)}
    IN IF hits = {} THEN 0 ELSE CHOOSE k \in hits : \A n \in hits : k <= n

NextHook(list, context, from, feature_name, rule_name, scenario_name) ==
    LET hits == {k \in from..Len(list) :
                    /\ list[k].context = context
                    /\ Criteria_eval(list[k], feature_name, rule_name, scenario_name)}
    IN IF hits = {} THEN 0 ELSE CHOOSE k \in hits : \A n \in hits : k <= n

HookCall(list_name, k, rule, scenario) ==
    [list |-> list_name, index |-> k, feature |-> fi, rule |-> rule, scenario |-> scenario,
     at |-> Len(events)]

\* One resumption of a hook loop `for (criteria, handler) in list`: up to and
\* including the next handler it awaits, or out of the loop.
HookLoop(list, list_name, context, rule, scenario, scenario_name, exit_pc) ==
    LET k == NextHook(list, context, hi, features[fi].name, RuleName(fi, rule), scenario_name)
    IN IF k # 0
       THEN /\ hook_calls' = Append(hook_calls, HookCall(list_name, k, rule, scenario))
            /\ hi' = k + 1
            /\ pc' = pc
       ELSE /\ hook_calls' = hook_calls
            /\ hi' = 1
            /\ pc' = exit_pc

\* ------------------------------------------------------------ Runner::run

Run_Starting ==
    /\ pc = "run"
    /\ stats' = StatsCollector_new
    /\ events' = Append(events, CucumberEvent_Starting)
    /\ fi' = 1
    /\ pc' = "run_features"
    /\ last_call' = NoCall
    /\ UNCHANGED <<config, steps_vars, capture_vars, stream, run_start, si, ri, rsi, hi, sti, cur, world, is_success, result,
                   return_event, panic_hook, hook_calls, step_calls>>

Run_Feature ==
    /\ pc = "run_features"
    /\ fi <= Len(features)
    /\ YieldFeatureEvent(FeatureEvent_Starting)
    /\ hi' = 1
    /\ pc' = "feature_before"
    /\ last_call' = NoCall
    /\ UNCHANGED <<config, steps_vars, capture_vars, stream, run_start, fi, si, ri, rsi, sti, cur, world, is_success, result,
                   return_event, panic_hook, hook_calls, step_calls>>

Run_Finished ==
    /\ pc = "run_features"
    /\ fi > Len(features)
    /\ events' = Append(events, CucumberEvent_Finished(collect(stats)))
    /\ pc' = "done"
    /\ last_call' = NoCall
    /\ UNCHANGED <<config, steps_vars, capture_vars, stream, run_start, fi, si, ri, rsi, hi, sti, cur, world, is_success, result,
                   return_event, stats, panic_hook, hook_calls, step_calls>>

\* ---------------------------------------------------- Runner::run_feature

Feature_Before ==
    /\ pc = "feature_before"
    /\ HookLoop(before, "before", "feature", 0, 0, "", "feature_scenarios")
    /\ si' = 1
    /\ last_call' = NoCall
    /\ UNCHANGED <<config, steps_vars, capture_vars, stream, run_start, fi, ri, rsi, sti, cur, world, is_success, result,
                   return_event, stats, panic_hook, events, step_calls>>

Feature_Scenario ==
    /\ pc = "feature_scenarios"
    /\ si <= Len(ScenarioRuns(features[fi], scenario_filter))
    /\ LET run == ScenarioRuns(features[fi], scenario_filter)[si]
       IN /\ cur' = [rule |-> 0, scenario |-> run.scenario, example |-> run.example]
          /\ YieldScenarioEvent(0, ScenarioRef(fi, 0, run.scenario),
                                ScenarioEvent_Starting(run.example))
    /\ hi' = 1
    /\ pc' = "scenario_before"
    /\ last_call' = NoCall
    /\ UNCHANGED <<config, steps_vars, capture_vars, fi, si, ri, rsi, sti, world, is_success, result,
                   panic_hook, hook_calls, step_calls>>

Feature_ScenariosDone ==
    /\ pc = "feature_scenarios"
    /\ si > Len(ScenarioRuns(features[fi], scenario_filter))
    /\ ri' = 1
    /\ pc' = "feature_rules"
    /\ last_call' = NoCall
    /\ UNCHANGED <<config, steps_vars, capture_vars, stream, run_start, fi, si, rsi, hi, sti, cur, world, is_success, result,
                   return_event, stats, panic_hook, events, hook_calls, step_calls>>

Feature_Rule ==
    /\ pc = "feature_rules"
    /\ ri <= Len(features[fi].rules)
    /\ YieldFeatureEvent(FeatureEvent_Rule(ri, RuleEvent_Starting))
    /\ hi' = 1
    /\ pc' = "rule_before"
    /\ last_call' = NoCall
    /\ UNCHANGED <<config, steps_vars, capture_vars, stream, run_start, fi, si, ri, rsi, sti, cur, world, is_success, result,
                   return_event, panic_hook, hook_calls, step_calls>>

Feature_RulesDone ==
    /\ pc = "feature_rules"
    /\ ri > Len(features[fi].rules)
    /\ hi' = 1
    /\ pc' = "feature_after"
    /\ last_call' = NoCall
    /\ UNCHANGED <<config, steps_vars, capture_vars, stream, run_start, fi, si, ri, rsi, sti, cur, world, is_success, result,
                   return_event, stats, panic_hook, events, hook_calls, step_calls>>

Feature_After ==
    /\ pc = "feature_after"
    /\ HookLoop(after, "after", "feature", 0, 0, "", "feature_finished")
    /\ last_call' = NoCall
    /\ UNCHANGED <<config, steps_vars, capture_vars, stream, run_start, fi, si, ri, rsi, sti, cur, world, is_success, result,
                   return_event, stats, panic_hook, events, step_calls>>

\* A variant of Feature_Finished whose stream ends without yielding Finished.
Feature_Finished_Silent ==
    /\ pc = "feature_finished"
    /\ fi' = fi + 1
    /\ pc' = "run_features"
    /\ last_call' = NoCall
    /\ UNCHANGED <<config, steps_vars, capture_vars, stream, run_start, si, ri, rsi, hi, sti, cur, world,
                   is_success, result, return_event, stats, events, panic_hook, hook_calls,
                   step_calls>>

\* The feature's stream yields Finished and ends; run's loop takes the next feature.
Feature_Finished ==
    /\ pc = "feature_finished"
    /\ YieldFeatureEvent(FeatureEvent_Finished)
    /\ fi' = fi + 1
    /\ pc' = "run_features"
    /\ last_call' = NoCall
    /\ UNCHANGED <<config, steps_vars, capture_vars, stream, run_start, si, ri, rsi, hi, sti, cur, world, is_success, result,
                   return_event, panic_hook, hook_calls, step_calls>>

\* ------------------------------------------------------- Runner::run_rule

Rule_Before ==
    /\ pc = "rule_before"
    /\ HookLoop(before, "before", "rule", ri, 0, "", "rule_scenarios")
    /\ return_event' = IF pc' = "rule_scenarios" THEN None ELSE return_event
    /\ rsi' = 1
    /\ last_call' = NoCall
    /\ UNCHANGED <<config, steps_vars, capture_vars, stream, run_start, fi, si, ri, sti, cur, world, is_success, result,
                   stats, panic_hook, events, step_calls>>

Rule_Scenario ==
    /\ pc = "rule_scenarios"
    /\ rsi <= Len(features[fi].rules[ri].scenarios)
    /\ cur' = [rule |-> ri, scenario |-> rsi, example |-> ExampleValues_empty]
    /\ YieldScenarioEvent(ri, ScenarioRef(fi, ri, rsi),
                          ScenarioEvent_Starting(ExampleValues_empty))
    /\ hi' = 1
    /\ pc' = "scenario_before"
    /\ last_call' = NoCall
    /\ UNCHANGED <<config, steps_vars, capture_vars, fi, si, ri, rsi, sti, world, is_success, result,
                   panic_hook, hook_calls, step_calls>>

\* A variant of Rule_ScenariosDone that leaves the rule-scope after-hooks out.
Rule_ScenariosDone_NoAfterHooks ==
    /\ pc = "rule_scenarios"
    /\ rsi > Len(features[fi].rules[ri].scenarios)
    /\ hi' = 1
    /\ pc' = "rule_finished"
    /\ last_call' = NoCall
    /\ UNCHANGED <<config, steps_vars, capture_vars, stream, run_start, fi, si, ri, rsi, sti, cur, world,
                   is_success, result, return_event, stats, panic_hook, events, hook_calls,
                   step_calls>>

Rule_ScenariosDone ==
    /\ pc = "rule_scenarios"
    /\ rsi > Len(features[fi].rules[ri].scenarios)
    /\ hi' = 1
    /\ pc' = "rule_after"
    /\ last_call' = NoCall
    /\ UNCHANGED <<config, steps_vars, capture_vars, stream, run_start, fi, si, ri, rsi, sti, cur, world, is_success, result,
                   return_event, stats, panic_hook, events, hook_calls, step_calls>>

Rule_After ==
    /\ pc = "rule_after"
    /\ HookLoop(after, "after", "rule", ri, 0, "", "rule_finished")
    /\ last_call' = NoCall
    /\ UNCHANGED <<config, steps_vars, capture_vars, stream, run_start, fi, si, ri, rsi, sti, cur, world, is_success, result,
                   return_event, stats, panic_hook, events, step_calls>>

\* The rule's stream yields its terminal event and ends; run_feature's loop
\* takes the next rule.
Rule_Finished ==
    /\ pc = "rule_finished"
    /\ YieldFeatureEvent(FeatureEvent_Rule(ri,
           IF return_event.some THEN return_event.value ELSE RuleEvent_Skipped))
    /\ ri' = ri + 1
    /\ pc' = "feature_rules"
    /\ last_call' = NoCall
    /\ UNCHANGED <<config, steps_vars, capture_vars, stream, run_start, fi, si, rsi, hi, sti, cur, world, is_success, result,
                   return_event, panic_hook, hook_calls, step_calls>>

\* --------------------------------------------------- Runner::run_scenario

Scenario_Before ==
    /\ pc = "scenario_before"
    /\ HookLoop(before, "before", "scenario", cur.rule, cur.scenario, CurScenario.name,
                "scenario_world")
    /\ last_call' = NoCall
    /\ UNCHANGED <<config, steps_vars, capture_vars, stream, run_start, fi, si, ri, rsi, sti, cur, world, is_success, result,
                   return_event, stats, panic_hook, events, step_calls>>

\* let mut world = Some(W::new().await.unwrap()); let mut is_success = true;
Scenario_World ==
    /\ pc = "scenario_world"
    /\ world' = Some(<<>>)
    /\ is_success' = TRUE
    /\ sti' = 1
    /\ pc' = "background"
    /\ last_call' = NoCall
    /\ UNCHANGED <<config, steps_vars, capture_vars, stream, run_start, fi, si, ri, rsi, hi, cur, result, return_event, stats,
                   panic_hook, events, hook_calls, step_calls>>

\* W::new() fails: the unwrap panics and the run is over.
Scenario_WorldFails ==
    /\ pc = "scenario_world"
    /\ pc' = "aborted"
    /\ last_call' = NoCall
    /\ UNCHANGED <<config, steps_vars, capture_vars, stream, run_start, fi, si, ri, rsi, hi, sti, cur, world, is_success, result,
                   return_event, stats, panic_hook, events, hook_calls, step_calls>>

\* A variant of StepEnvelope that wraps the terminal StepEvent of a background
\* step in ScenarioEvent::Step.
StepEnvelope_ByEvent(phase, step, event) ==
    IF phase = "background" /\ event.type = "Starting"
    THEN ScenarioEvent_Background(step, event)
    ELSE ScenarioEvent_Step(step, event)

StepEnvelope(phase, step, event) ==
    IF phase = "background" THEN ScenarioEvent_Background(step, event)
    ELSE ScenarioEvent_Step(step, event)

\* yield ScenarioEvent::Background/Step(step, StepEvent::Starting)
StepStarting(phase) ==
    /\ pc = phase
    /\ sti <= Len(LoopSteps(phase))
    /\ YieldScenarioEvent(cur.rule, CurRef,
                          StepEnvelope(phase, LoopSteps(phase)[sti], StepEvent_Starting))
    /\ pc' = phase \o "_run"
    /\ last_call' = NoCall
    /\ UNCHANGED <<config, steps_vars, capture_vars, fi, si, ri, rsi, hi, sti, cur, world, is_success, result,
                   panic_hook, hook_calls, step_calls>>

\* The StepEvent yielded for a TestEvent.
StepEventOf(test_event) ==
    CASE test_event.type = "Success" -> StepEvent_Passed
      [] test_event.type = "Failure" -> StepEvent_Failed(test_event.kind)
      [] test_event.type = "Skipped" -> StepEvent_Skipped
      [] test_event.type = "Unimplemented" -> StepEvent_Unimplemented

\* A variant of HaltEventOf that reports every step that did not succeed as
\* a skipped scenario.
HaltEventOf_AlwaysSkipped(test_event) == ScenarioEvent_Skipped

\* The terminal ScenarioEvent yielded after the StepEvent of a step that did
\* not succeed.
HaltEventOf(test_event) ==
    CASE test_event.type = "Failure" -> ScenarioEvent_Failed(test_event.kind)
      [] test_event.type = "Skipped" -> ScenarioEvent_Skipped
      [] test_event.type = "Unimplemented" -> ScenarioEvent_Skipped

\* A variant of NextWorld that hands the next step a fresh World.
NextWorld_Fresh(test_event) == Some(<<>>)

\* world = Some(w): the World of TestEvent::Success goes to the next step.
NextWorld(test_event) == Some(test_event.world)

StepCall(phase, step, w) ==
    [scenario |-> CurRef, phase |-> phase, index |-> sti, step |-> step, world |-> w,
     at |-> Len(events)]

\* let result = this.run_step(step, world.take().unwrap()).await; and the first
\* yield of the match on it.
StepRun(phase) ==
    /\ pc = phase \o "_run"
    /\ LET step == LoopSteps(phase)[sti]
           func == resolve(functions, step)
       IN \E beh \in (IF func.some THEN Behaviours(func.shape) ELSE {NoBehaviour}) :
            IF ~world.some
            THEN /\ pc' = "aborted"
                 /\ last_call' = NoCall
                 /\ UNCHANGED <<sti, world, result, return_event, stats, panic_hook,
                                events, stream, run_start, step_calls>>
            ELSE LET r == run_step(functions, step_timeout, step, world.value, beh)
                 IN /\ result' = r
                    /\ step_calls' = Append(step_calls, StepCall(phase, step, world.value))
                    /\ last_call' = [made |-> TRUE, func |-> func, beh |-> beh, result |-> r]
                    /\ panic_hook' = IF func.some THEN "step" ELSE panic_hook
                    /\ YieldScenarioEvent(cur.rule, CurRef,
                                          StepEnvelope(phase, step, StepEventOf(r)))
                    /\ IF r.type = "Success"
                       THEN /\ world' = NextWorld(r)
                            /\ sti' = sti + 1
                            /\ pc' = phase
                       ELSE /\ world' = None
                            /\ sti' = sti
                            /\ pc' = phase \o "_halt"
    /\ UNCHANGED <<config, steps_vars, capture_vars, fi, si, ri, rsi, hi, cur, is_success, hook_calls>>

\* A variant of StepHalt without the break: the loop goes on to the next step.
StepHalt_NoBreak(phase) ==
    /\ pc = phase \o "_halt"
    /\ YieldScenarioEvent(cur.rule, CurRef, HaltEventOf(result))
    /\ is_success' = FALSE
    /\ sti' = sti + 1
    /\ pc' = phase
    /\ last_call' = NoCall
    /\ UNCHANGED <<config, steps_vars, capture_vars, fi, si, ri, rsi, hi, cur, world, result, panic_hook,
                   hook_calls, step_calls>>

\* A variant of StepHalt whose break leaves the scenario without running its
\* after-hooks.
StepHalt_SkipAfter(phase) ==
    /\ pc = phase \o "_halt"
    /\ YieldScenarioEvent(cur.rule, CurRef, HaltEventOf(result))
    /\ is_success' = FALSE
    /\ hi' = 1
    /\ pc' = "scenario_end"
    /\ last_call' = NoCall
    /\ UNCHANGED <<config, steps_vars, capture_vars, fi, si, ri, rsi, sti, cur, world, result, panic_hook,
                   hook_calls, step_calls>>

\* yield ScenarioEvent::Failed(..) / Skipped; is_success = false; break;
StepHalt(phase) ==
    /\ pc = phase \o "_halt"
    /\ YieldScenarioEvent(cur.rule, CurRef, HaltEventOf(result))
    /\ is_success' = FALSE
    /\ hi' = 1
    /\ pc' = "scenario_after"
    /\ last_call' = NoCall
    /\ UNCHANGED <<config, steps_vars, capture_vars, fi, si, ri, rsi, sti, cur, world, result, panic_hook,
                   hook_calls, step_calls>>

Background_Starting == StepStarting("background")

Background_Run == StepRun("background")

Background_Halt == StepHalt("background")

\* The background loop is over (or there is no background); if is_success ...
Background_Done ==
    /\ pc = "background"
    /\ sti > Len(BackgroundSteps)
    /\ sti' = 1
    /\ hi' = 1
    /\ pc' = IF is_success THEN "steps" ELSE "scenario_after"
    /\ last_call' = NoCall
    /\ UNCHANGED <<config, steps_vars, capture_vars, stream, run_start, fi, si, ri, rsi, cur, world, is_success, result,
                   return_event, stats, panic_hook, events, hook_calls, step_calls>>

Step_Starting == StepStarting("steps")

Step_Run == StepRun("steps")

Step_Halt == StepHalt("steps")

Step_Done ==
    /\ pc = "steps"
    /\ sti > Len(ScenarioSteps)
    /\ hi' = 1
    /\ pc' = "scenario_after"
    /\ last_call' = NoCall
    /\ UNCHANGED <<config, steps_vars, capture_vars, stream, run_start, fi, si, ri, rsi, sti, cur, world, is_success, result,
                   return_event, stats, panic_hook, events, hook_calls, step_calls>>

Scenario_After ==
    /\ pc = "scenario_after"
    /\ HookLoop(after, "after", "scenario", cur.rule, cur.scenario, CurScenario.name,
                "scenario_end")
    /\ last_call' = NoCall
    /\ UNCHANGED <<config, steps_vars, capture_vars, stream, run_start, fi, si, ri, rsi, sti, cur, world, is_success, result,
                   return_event, stats, panic_hook, events, step_calls>>

\* A variant of Scenario_Passed that yields Passed without testing is_success.
Scenario_Passed_Always ==
    /\ pc = "scenario_end"
    /\ YieldScenarioEvent(cur.rule, CurRef, ScenarioEvent_Passed)
    /\ pc' = "scenario_return"
    /\ last_call' = NoCall
    /\ UNCHANGED <<config, steps_vars, capture_vars, fi, si, ri, rsi, hi, sti, cur, world, is_success, result,
                   panic_hook, hook_calls, step_calls>>

\* if is_success { yield ScenarioEvent::Passed; }
Scenario_Passed ==
    /\ pc = "scenario_end"
    /\ is_success
    /\ YieldScenarioEvent(cur.rule, CurRef, ScenarioEvent_Passed)
    /\ pc' = "scenario_return"
    /\ last_call' = NoCall
    /\ UNCHANGED <<config, steps_vars, capture_vars, fi, si, ri, rsi, hi, sti, cur, world, is_success, result,
                   panic_hook, hook_calls, step_calls>>

\* A variant of Scenario_Return in which a scenario that did not pass ends
\* its caller's loop over the scenarios.
Scenario_Return_StopOnFailure ==
    /\ \/ pc = "scenario_end" /\ ~is_success
       \/ pc = "scenario_return"
    /\ IF cur.rule = 0
       THEN /\ si' = IF is_success THEN si + 1
                     ELSE Len(ScenarioRuns(features[fi], scenario_filter)) + 1
            /\ rsi' = rsi
            /\ pc' = "feature_scenarios"
       ELSE /\ rsi' = IF is_success THEN rsi + 1
                      ELSE Len(features[fi].rules[ri].scenarios) + 1
            /\ si' = si
            /\ pc' = "rule_scenarios"
    /\ cur' = NoCur
    /\ world' = None
    /\ result' = NoResult
    /\ last_call' = NoCall
    /\ UNCHANGED <<config, steps_vars, capture_vars, stream, run_start, fi, ri, hi, sti, is_success, return_event, stats,
                   panic_hook, events, hook_calls, step_calls>>

\* A variant of Scenario_Return that leaves the World of the scenario in place
\* for the scenario that runs next.
Scenario_Return_KeepsWorld ==
    /\ \/ pc = "scenario_end" /\ ~is_success
       \/ pc = "scenario_return"
    /\ IF cur.rule = 0
       THEN /\ si' = si + 1
            /\ rsi' = rsi
            /\ pc' = "feature_scenarios"
       ELSE /\ rsi' = rsi + 1
            /\ si' = si
            /\ pc' = "rule_scenarios"
    /\ cur' = NoCur
    /\ result' = NoResult
    /\ last_call' = NoCall
    /\ UNCHANGED <<config, steps_vars, capture_vars, stream, run_start, fi, ri, hi, sti, world, is_success,
                   return_event, stats, panic_hook, events, hook_calls, step_calls>>

\* The scenario's stream ends; the caller's loop (run_feature or run_rule)
\* takes its next scenario.
Scenario_Return ==
    /\ \/ pc = "scenario_end" /\ ~is_success
       \/ pc = "scenario_return"
    /\ IF cur.rule = 0
       THEN /\ si' = si + 1
            /\ rsi' = rsi
            /\ pc' = "feature_scenarios"
       ELSE /\ rsi' = rsi + 1
            /\ si' = si
            /\ pc' = "rule_scenarios"
    /\ cur' = NoCur
    /\ world' = None
    /\ result' = NoResult
    /\ last_call' = NoCall
    /\ UNCHANGED <<config, steps_vars, capture_vars, stream, run_start, fi, ri, hi, sti, is_success, return_event, stats,
                   panic_hook, events, hook_calls, step_calls>>

\* ------------------------------------------------------ the specification

Next ==
    \/ Run_Starting
    \/ Run_Feature
    \/ Run_Finished
    \/ Feature_Before
    \/ Feature_Scenario
    \/ Feature_ScenariosDone
    \/ Feature_Rule
    \/ Feature_RulesDone
    \/ Feature_After
    \/ Feature_Finished
    \/ Rule_Before
    \/ Rule_Scenario
    \/ Rule_ScenariosDone
    \/ Rule_After
    \/ Rule_Finished
    \/ Scenario_Before
    \/ Scenario_World
    \/ Scenario_WorldFails
    \/ Background_Starting
    \/ Background_Run
    \/ Background_Halt
    \/ Background_Done
    \/ Step_Starting
    \/ Step_Run
    \/ Step_Halt
    \/ Step_Done
    \/ Scenario_After
    \/ Scenario_Passed
    \/ Scenario_Return

Spec == Init /\ [][Next]_vars

\* ------------------------------------------------- Steps::run_scenarios

\* A step and a scenario of the gherkin tree as Steps::run_scenarios reads
\* them. Texts are sequences of tokens; a placeholder <k> is one token.
DocStep(ty, value, docstring) == [ty |-> ty, value |-> value, docstring |-> docstring]

TaggedScenario(name, steps, examples, tags) ==
    [name |-> name, steps |-> steps, examples |-> examples, tags |-> tags]

\* The cells of the examples tables.
Cells == {"1", "2"}

\* The examples tables over the header (a, b).
Tables == UNION { [1..n -> Cells \X Cells] : n \in 0..MaxTableRows }

OutlineSteps ==
    << DocStep("Given", <<"I", "have", "<a>", "items">>, None),
       DocStep("Then", <<"<b>", "left">>, Some(<<"of", "<a>">>)) >>

OutlineNames == { <<"S">>, <<"S", "<a>">> }

Outlines ==
    { TaggedScenario(name, OutlineSteps, Examples(<<"a", "b">>, table), None) :
        name \in OutlineNames, table \in Tables }

PlainScenario(tags) ==
    TaggedScenario(<<"P">>, <<DocStep("When", <<"I", "eat", "<a>">>, None)>>, NoExamples, tags)

ScenarioLists ==
    { <<outline, PlainScenario(Some({"wip"}))>> : outline \in Outlines } \cup
    { <<PlainScenario(Some({"slow"})), outline>> : outline \in Outlines }

\* cli::CliOptions: the tag and the filter (a regular expression given by the
\* scenario names it matches).
CliOptions ==
    [tag : {None, Some("wip")},
     filter : {None, Some(Filter({ <<"S", "<a>">>, <<"P">> }))}]

\* format!("<{}>", k)
Placeholder(k) == "<" \o k \o ">"

\* str::replace on a text of tokens.
str_replace(text, from, to) ==
    [j \in 1..Len(text) |-> IF text[j] = from THEN to ELSE text[j]]

\* A variant of replace_row that takes every value from the first column.
RECURSIVE replace_row_FirstColumn(_, _, _, _)
replace_row_FirstColumn(text, header, row, j) ==
    IF j > Len(header) \/ j > Len(row) THEN text
    ELSE replace_row_FirstColumn(str_replace(text, Placeholder(header[j]), row[1]), header,
                                 row, j + 1)

\* for (k, v) in examples.table.header.iter().zip(row.iter()) {
\*     text = text.replace(&format!("<{}>", k), &v) }, from pair j on.
RECURSIVE replace_row(_, _, _, _)
replace_row(text, header, row, j) ==
    IF j > Len(header) \/ j > Len(row) THEN text
    ELSE replace_row(str_replace(text, Placeholder(header[j]), row[j]), header, row, j + 1)

\* The steps of the scenario for one examples row: value and docstring rewritten.
example_steps(scenario, row) ==
    [j \in 1..Len(scenario.steps) |->
        [scenario.steps[j] EXCEPT
            !.value = replace_row(@, scenario.examples.header, row, 1),
            !.docstring = IF @.some
                          THEN Some(replace_row(@.value, scenario.examples.header, row, 1))
                          ELSE @]]

\* The name of the scenario for examples row i (counted from 0): the values
\* substituted, or the index appended if that changes nothing.
example_name(scenario, i, row) ==
    LET scenario_name == replace_row(scenario.name, scenario.examples.header, row, 1)
    IN IF scenario_name = scenario.name THEN Append(scenario.name, ToString(i))
       ELSE scenario_name

example_scenario(scenario, i, row) ==
    TaggedScenario(example_name(scenario, i, row), example_steps(scenario, row), NoExamples,
                   scenario.tags)

\* A tag is specified and the scenario has tags, but not that one.
should_skip(scenario, options) ==
    /\ scenario.tags.some
    /\ options.tag.some
    /\ options.tag.value \notin scenario.tags.value

\* The regex filter fails on the name of the scenario.
filter_fails(scenario, options) ==
    /\ options.filter.some
    /\ ~Regex_is_match(options.filter.value, scenario.name)

\* futures.push(self.run_scenario(.., scenario, ..)); `origin` records the
\* scenario of the outer loop it was pushed for.
PushFuture(scenario) == Append(futures, [scenario |-> scenario, origin |-> rs_si])

\* The Runner is not in use.
RunnerIdle ==
    /\ features = <<>>
    /\ functions = StepsCollection
    /\ step_timeout = NoTimeout
    /\ scenario_filter = NoFilter
    /\ before = <<>>
    /\ after = <<>>
    /\ pc = "idle"
    /\ fi = 1
    /\ si = 1
    /\ ri = 1
    /\ rsi = 1
    /\ hi = 1
    /\ sti = 1
    /\ cur = NoCur
    /\ world = None
    /\ is_success = TRUE
    /\ result = NoResult
    /\ return_event = None
    /\ stats = StatsCollector_new
    /\ panic_hook = "default"
    /\ events = <<>>
    /\ stream = <<>>
    /\ run_start = 0
    /\ hook_calls = <<>>
    /\ step_calls = <<>>
    /\ last_call = NoCall

\* ----------------------------------------------------------- Steps::run

\* StepFn: a step function is synchronous or asynchronous.
SyncStepFn == "SyncStepFn"

AsyncStepFn == "AsyncStepFn"

StepUser == DocStep("Given", <<"a", "user">>, None)

StepWait == DocStep("When", <<"I", "wait">>, None)

StepCosts == DocStep("Then", <<"it", "costs", "$", "5">>, None)

StepNothing == DocStep("Then", <<"nothing">>, None)

\* The test bags of a Steps: for a step type and a name, a step function.
EmptyBag == {}

FullBag ==
    { [ty |-> "Given", name |-> StepUser.value, step_fn |-> SyncStepFn],
      [ty |-> "When", name |-> StepWait.value, step_fn |-> AsyncStepFn],
      [ty |-> "Then", name |-> StepCosts.value, step_fn |-> SyncStepFn] }

\* self.test_bag_for(step.ty).get(&*step.value)
test_bag_get(bag, step) ==
    LET found == {e \in bag : e.ty = step.ty /\ e.name = step.value}
    IN IF found = {} THEN None ELSE Some((CHOOSE e \in found : TRUE).step_fn)

\* A feature file: one that cannot be opened, one that does not parse, or
\* the Feature it parses to.
FileMissing == [status |-> "missing"]

FileInvalid == [status |-> "invalid"]

FileOf(feature) == [status |-> "ok", feature |-> feature]

\* A feature of two scenarios that mix synchronous and asynchronous steps.
FeatureA ==
    Feature("A", NoBackground,
            << TaggedScenario(<<"A1">>, <<StepUser, StepWait, StepUser>>, NoExamples, None),
               TaggedScenario(<<"A2">>, <<StepWait, StepNothing, StepUser>>, NoExamples,
                              None) >>,
            <<>>)

\* A feature with a background and two rules of one scenario each.
FeatureB ==
    Feature("B", Background(<<StepUser>>), <<>>,
            << Rule("R1", <<TaggedScenario(<<"B1">>, <<StepWait>>, NoExamples, None)>>),
               Rule("R2", <<TaggedScenario(<<"B2">>, <<StepCosts>>, NoExamples, None)>>) >>)

NoOptions == [tag |-> None, filter |-> None]

\* The arguments of Steps::run and the Steps it is called on: the feature
\* files, the options, the test bags, and whether W::default() returns.
RunInputs ==
    { [files |-> <<FileOf(Feature("T", NoBackground, list, <<>>))>>, options |-> o,
       bag |-> EmptyBag, default_ok |-> TRUE] :
        list \in ScenarioLists, o \in CliOptions }
    \cup
    { [files |-> f, options |-> NoOptions, bag |-> FullBag, default_ok |-> TRUE] :
        f \in { <<FileInvalid, FileOf(FeatureA)>>,
                <<FileOf(FeatureA), FileInvalid>>,
                <<FileOf(FeatureB), FileOf(FeatureA)>>,
                <<FileInvalid, FileMissing>> } }
    \cup
    { [files |-> <<FileOf(FeatureA)>>, options |-> NoOptions, bag |-> FullBag,
       default_ok |-> FALSE] }

\* str::split(' ') on a text given in pieces, a piece being a space or a run
\* of other characters: the chunks between the spaces, from piece j on, `chunk`
\* being the chunk read so far. The empty text has one chunk, the empty one.
RECURSIVE str_split(_, _, _)
str_split(text, j, chunk) ==
    IF j > Len(text) THEN <<chunk>>
    ELSE IF text[j] = " " THEN <<chunk>> \o str_split(text, j + 1, "")
    ELSE str_split(text, j + 1, chunk \o text[j])

\* tag_rule_applies: with tags, every chunk of the rule other than `and` and
\* `or` has to be one of them; without tags, true.
tag_rule_applies(scenario, rule) ==
    IF scenario.tags.some
    THEN LET rule_chunks == str_split(rule, 1, "")
         IN \A k \in 1..Len(rule_chunks) :
               \/ rule_chunks[k] = "and" \/ rule_chunks[k] = "or"
               \/ rule_chunks[k] \in scenario.tags.value
    ELSE TRUE

\* The function that before!($fnname: $tagrule => $scenariofn) defines, and
\* the form without a tag rule, which is before!($fnname: "" => $scenariofn);
\* after! is a remap of before!.
before_macro(fnname, tagrule) == [name |-> fnname, tag_rule |-> tagrule]

before_macro_untagged(fnname) == before_macro(fnname, <<>>)

\* before_fns and after_fns, the helper functions Steps::run is given.
BeforeFns == << before_macro_untagged("before1"), before_macro("before2", <<"wip">>) >>

AfterFns == << before_macro("after1", <<"wip", " ", "or", " ", "slow">>) >>

\* What a call of a helper function does: its closure is called if the tag
\* rule applies to the scenario.
helper_fn(f, scenario) ==
    IF tag_rule_applies(scenario, f.tag_rule) THEN "closure called" ELSE "closure not called"

\* A call of the OutputVisitor or of a helper function: in which file and
\* rule (0: none), for which run of run_scenarios' `futures` (0: none), and,
\* for a step, its index and its result; for a helper function, its index in
\* its list and whether it called its closure.
Visit(call, run, step, test_result) ==
    [call |-> call, file |-> sr_fi, rule |-> sr_ri, run |-> run, step |-> step,
     result |-> test_result]

\* ------------------------------------------------------ Steps::run_test

\* The payloads step functions panic with: the message of skip!(), another
\* message, and a value that is neither a String nor a &str.
SkipMessage == <<"not implemented: ", "cucumber test skipped">>

StepPayloads ==
    { [type |-> "String", text |-> SkipMessage],
      [type |-> "str", text |-> <<"assertion failed">>],
      [type |-> "other", text |-> <<>>] }

NoStepPayload == [type |-> "other", text |-> <<>>]

\* What a step function does when called: it returns or panics, an
\* asynchronous one after its future was pending for `suspends` polls.
StepBehaviours(step_fn) ==
    { b \in [end : {"return", "panic"}, payload : StepPayloads, suspends : 0..MaxSuspends] :
        /\ (b.end = "return" => b.payload = NoStepPayload)
        /\ (step_fn = SyncStepFn => b.suspends = 0) }

\* Regex::new(&step.value) and regex.captures(&step.value): a text with an
\* unbalanced parenthesis is no regular expression, and one with `$` before
\* its end does not match itself.
regexp_matches(value) ==
    IF \E j \in 1..Len(value) : value[j] = "("
    THEN [regex |-> FALSE, captures |-> None]
    ELSE IF \E j \in 1..(Len(value) - 1) : value[j] = "$"
         THEN [regex |-> TRUE, captures |-> None]
         ELSE [regex |-> TRUE, captures |-> Some(<<value>>)]

\* The payload text of PanicDetails: a String or &str payload as it is, and
\* a fixed text for any other.
panic_payload(payload) ==
    IF payload.type \in {"String", "str"} THEN payload.text
    ELSE <<"Opaque panic payload">>

\* str::ends_with on texts given in pieces.
ends_with(text, suffix) ==
    /\ Len(text) >= Len(suffix)
    /\ SubSeq(text, Len(text) - Len(suffix) + 1, Len(text)) = suffix

\* The TestResult of run_test for a step function that behaved as `beh`.
run_test(beh) ==
    IF beh.end = "return" THEN "Pass"
    ELSE IF ends_with(panic_payload(beh.payload), <<"cucumber test skipped">>)
         THEN "Skipped"
         ELSE "Fail"

\* The World after run_test: a synchronous step function works on the
\* scenario's World through &mut, an asynchronous one is handed a clone.
world_after(w, step_fn, step, beh) ==
    IF step_fn = SyncStepFn /\ beh.end = "return" THEN HandlerWorld(w, step)
    ELSE w

\* Steps::run is called: visit_start, let mut is_success = true.
StepsInit ==
    /\ RunnerIdle
    /\ CaptureIdle
    /\ \E input \in RunInputs :
          /\ sr_files = input.files
          /\ rs_options = input.options
          /\ sr_bag = input.bag
          /\ sr_default_ok = input.default_ok
    /\ sr_pc = "start"
    /\ sr_fi = 1
    /\ sr_ri = 0
    /\ sr_is_success = TRUE
    /\ rs_scenarios = <<>>
    /\ rs_pc = "idle"
    /\ rs_si = 1
    /\ rs_row = 0
    /\ futures = <<>>
    /\ tasks = <<>>
    /\ jp = 0
    /\ rs_result = None
    /\ visits = <<>>
    /\ test_calls = <<>>

\* output.visit_start(); let mut is_success = true;
StepsRun_Start ==
    /\ sr_pc = "start"
    /\ visits' = Append(visits, Visit("visit_start", 0, 0, ""))
    /\ sr_is_success' = TRUE
    /\ sr_fi' = 1
    /\ sr_pc' = "files"
    /\ UNCHANGED <<runner_vars, capture_vars, sr_files, sr_bag, sr_default_ok, sr_ri, loop_vars, tasks, jp,
                   rs_result, test_calls>>

\* File::open(&path).expect("file to open") panics.
StepsRun_OpenFails ==
    /\ sr_pc = "files"
    /\ sr_fi <= Len(sr_files)
    /\ sr_files[sr_fi].status = "missing"
    /\ sr_pc' = "aborted"
    /\ UNCHANGED <<runner_vars, capture_vars, sr_files, sr_bag, sr_default_ok, sr_fi, sr_ri, sr_is_success,
                   loop_vars, tasks, jp, rs_result, visits, test_calls>>

\* A variant of StepsRun_FeatureError that ends the loop over the files at a
\* file that does not parse.
StepsRun_FeatureError_Stops ==
    /\ sr_pc = "files"
    /\ sr_fi <= Len(sr_files)
    /\ sr_files[sr_fi].status = "invalid"
    /\ visits' = Append(visits, Visit("visit_feature_error", 0, 0, ""))
    /\ sr_is_success' = FALSE
    /\ sr_fi' = Len(sr_files) + 1
    /\ UNCHANGED <<runner_vars, capture_vars, sr_files, sr_bag, sr_default_ok, sr_pc, sr_ri, loop_vars, tasks,
                   jp, rs_result, test_calls>>

\* Err(e) => { output.visit_feature_error(&path, &e); is_success = false; continue; }
StepsRun_FeatureError ==
    /\ sr_pc = "files"
    /\ sr_fi <= Len(sr_files)
    /\ sr_files[sr_fi].status = "invalid"
    /\ visits' = Append(visits, Visit("visit_feature_error", 0, 0, ""))
    /\ sr_is_success' = FALSE
    /\ sr_fi' = sr_fi + 1
    /\ UNCHANGED <<runner_vars, capture_vars, sr_files, sr_bag, sr_default_ok, sr_pc, sr_ri, loop_vars, tasks,
                   jp, rs_result, test_calls>>

\* run_scenarios is entered with a list of scenarios: let mut futures = vec![].
CallRunScenarios(scenarios) ==
    /\ rs_scenarios' = scenarios
    /\ rs_pc' = "scenarios"
    /\ rs_si' = 1
    /\ rs_row' = 0
    /\ futures' = <<>>
    /\ tasks' = <<>>
    /\ jp' = 0
    /\ rs_result' = None

\* output.visit_feature(&feature, &path); self.run_scenarios(&feature, None,
\* &feature.scenarios, ..) is called.
StepsRun_Feature ==
    /\ sr_pc = "files"
    /\ sr_fi <= Len(sr_files)
    /\ sr_files[sr_fi].status = "ok"
    /\ sr_ri' = 0
    /\ visits' = Append(visits, [Visit("visit_feature", 0, 0, "") EXCEPT !.rule = 0])
    /\ CallRunScenarios(sr_files[sr_fi].feature.scenarios)
    /\ sr_pc' = "feature_scenarios"
    /\ UNCHANGED <<runner_vars, capture_vars, sr_files, sr_bag, sr_default_ok, sr_fi, sr_is_success,
                   rs_options, test_calls>>

\* if !self.run_scenarios(..).await { is_success = false; } for the scenarios
\* of the feature; the loop over the rules begins.
StepsRun_ScenariosDone ==
    /\ sr_pc = "feature_scenarios"
    /\ rs_pc = "joined"
    /\ sr_is_success' = (sr_is_success /\ rs_result.value)
    /\ sr_ri' = 1
    /\ sr_pc' = "rules"
    /\ rs_pc' = "idle"
    /\ UNCHANGED <<runner_vars, capture_vars, sr_files, sr_bag, sr_default_ok, sr_fi, rs_scenarios,
                   rs_options, rs_si, rs_row, futures, tasks, jp, rs_result, visits,
                   test_calls>>

\* output.visit_rule(&rule); self.run_scenarios(&feature, Some(&rule),
\* &rule.scenarios, ..) is called.
StepsRun_Rule ==
    /\ sr_pc = "rules"
    /\ sr_ri <= Len(sr_files[sr_fi].feature.rules)
    /\ visits' = Append(visits, Visit("visit_rule", 0, 0, ""))
    /\ CallRunScenarios(sr_files[sr_fi].feature.rules[sr_ri].scenarios)
    /\ sr_pc' = "rule_scenarios"
    /\ UNCHANGED <<runner_vars, capture_vars, sr_files, sr_bag, sr_default_ok, sr_fi, sr_ri, sr_is_success,
                   rs_options, test_calls>>

\* if !self.run_scenarios(..).await { is_success = false; }
\* output.visit_rule_end(&rule);
StepsRun_RuleEnd ==
    /\ sr_pc = "rule_scenarios"
    /\ rs_pc = "joined"
    /\ sr_is_success' = (sr_is_success /\ rs_result.value)
    /\ visits' = Append(visits, Visit("visit_rule_end", 0, 0, ""))
    /\ sr_ri' = sr_ri + 1
    /\ sr_pc' = "rules"
    /\ rs_pc' = "idle"
    /\ UNCHANGED <<runner_vars, capture_vars, sr_files, sr_bag, sr_default_ok, sr_fi, rs_scenarios,
                   rs_options, rs_si, rs_row, futures, tasks, jp, rs_result, test_calls>>

\* output.visit_feature_end(&feature); the loop takes the next file.
StepsRun_FeatureEnd ==
    /\ sr_pc = "rules"
    /\ sr_ri > Len(sr_files[sr_fi].feature.rules)
    /\ visits' = Append(visits, [Visit("visit_feature_end", 0, 0, "") EXCEPT !.rule = 0])
    /\ sr_fi' = sr_fi + 1
    /\ sr_ri' = 0
    /\ sr_pc' = "files"
    /\ UNCHANGED <<runner_vars, capture_vars, sr_files, sr_bag, sr_default_ok, sr_is_success, loop_vars,
                   tasks, jp, rs_result, test_calls>>

\* output.visit_finish(); is_success
StepsRun_Finish ==
    /\ sr_pc = "files"
    /\ sr_fi > Len(sr_files)
    /\ visits' = Append(visits, [Visit("visit_finish", 0, 0, "") EXCEPT !.file = 0])
    /\ sr_pc' = "returned"
    /\ UNCHANGED <<runner_vars, capture_vars, sr_files, sr_bag, sr_default_ok, sr_fi, sr_ri, sr_is_success,
                   loop_vars, tasks, jp, rs_result, test_calls>>

\* ------------------------------------------------- Steps::run_scenarios

\* if should_skip { continue; }
RunScenarios_TagSkip ==
    /\ rs_pc = "scenarios"
    /\ rs_si <= Len(rs_scenarios)
    /\ should_skip(rs_scenarios[rs_si], rs_options)
    /\ rs_si' = rs_si + 1
    /\ UNCHANGED <<runner_vars, capture_vars, run_vars, exec_vars, rs_scenarios, rs_options,
                   rs_pc, rs_row, futures>>

\* match &scenario.examples { Some(examples) => for (i, row) in .. }
RunScenarios_Outline ==
    /\ rs_pc = "scenarios"
    /\ rs_si <= Len(rs_scenarios)
    /\ ~should_skip(rs_scenarios[rs_si], rs_options)
    /\ rs_scenarios[rs_si].examples.present
    /\ rs_pc' = "rows"
    /\ rs_row' = 0
    /\ UNCHANGED <<runner_vars, capture_vars, run_vars, exec_vars, rs_scenarios, rs_options,
                   rs_si, futures>>

\* One iteration of the loop over the rows: the example scenario is built and,
\* unless the filter fails, its run is pushed.
RunScenarios_Row ==
    /\ rs_pc = "rows"
    /\ rs_row < Len(rs_scenarios[rs_si].examples.rows)
    /\ LET scenario == rs_scenarios[rs_si]
           example == example_scenario(scenario, rs_row, scenario.examples.rows[rs_row + 1])
       IN futures' = IF filter_fails(scenario, rs_options) THEN futures
                     ELSE PushFuture(example)
    /\ rs_row' = rs_row + 1
    /\ UNCHANGED <<runner_vars, capture_vars, run_vars, exec_vars, rs_scenarios, rs_options,
                   rs_pc, rs_si>>

\* The loop over the rows ends.
RunScenarios_RowsDone ==
    /\ rs_pc = "rows"
    /\ rs_row >= Len(rs_scenarios[rs_si].examples.rows)
    /\ rs_pc' = "scenarios"
    /\ rs_si' = rs_si + 1
    /\ UNCHANGED <<runner_vars, capture_vars, run_vars, exec_vars, rs_scenarios, rs_options,
                   rs_row, futures>>

\* None => the scenario itself is run, unless the filter fails.
RunScenarios_Plain ==
    /\ rs_pc = "scenarios"
    /\ rs_si <= Len(rs_scenarios)
    /\ ~should_skip(rs_scenarios[rs_si], rs_options)
    /\ ~rs_scenarios[rs_si].examples.present
    /\ futures' = IF filter_fails(rs_scenarios[rs_si], rs_options) THEN futures
                  ELSE PushFuture(rs_scenarios[rs_si])
    /\ rs_si' = rs_si + 1
    /\ UNCHANGED <<runner_vars, capture_vars, run_vars, exec_vars, rs_scenarios, rs_options,
                   rs_pc, rs_row>>

\* ------------------------------------------------- Steps::run_scenario

\* A run_scenario future that has not been polled yet.
NewTask ==
    [pc |-> "start", sti |-> 1, world |-> None, is_success |-> TRUE, is_skipping |-> FALSE,
     beh |-> None, pending |-> 0]

\* The feature and the rule (0: None) run_scenarios was called with.
RunFeature == sr_files[sr_fi].feature

\* let mut steps = vec![]: the steps of the feature's background, then the
\* steps of the scenario.
TaskSteps(j) ==
    (IF RunFeature.background.present THEN RunFeature.background.steps ELSE <<>>)
        \o futures[j].scenario.steps

\* join_all polls its futures in order, the ones that are done excepted,
\* over and over until all are done: the future to poll after future j
\* (0: all are done).
NextPoll(ts, j) ==
    LET pending == {k \in 1..Len(ts) : ts[k].pc # "done"}
        later == {k \in pending : k > j}
    IN IF later # {} THEN CHOOSE k \in later : \A o \in later : k <= o
       ELSE IF pending # {} THEN CHOOSE k \in pending : \A o \in pending : k <= o
       ELSE 0

\* The poll of future jp ends, pending or ready; when all futures are ready
\* join_all is, and run_scenarios returns .into_iter().all(|x| x).
EndPoll(ts) ==
    /\ tasks' = ts
    /\ jp' = NextPoll(ts, jp)
    /\ IF NextPoll(ts, jp) = 0
       THEN /\ rs_pc' = "joined"
            /\ rs_result' = Some(\A k \in 1..Len(ts) : ts[k].is_success)
       ELSE UNCHANGED <<rs_pc, rs_result>>

\* futures::future::join_all(futures).await begins: the first future is polled.
RunScenarios_Join ==
    /\ rs_pc = "scenarios"
    /\ rs_si > Len(rs_scenarios)
    /\ tasks' = [j \in 1..Len(futures) |-> NewTask]
    /\ IF futures = <<>>
       THEN /\ rs_pc' = "joined"
            /\ rs_result' = Some(TRUE)
            /\ jp' = 0
       ELSE /\ rs_pc' = "join_all"
            /\ rs_result' = None
            /\ jp' = 1
    /\ UNCHANGED <<runner_vars, capture_vars, run_vars, rs_scenarios, rs_options, rs_si, rs_row, futures,
                   visits, test_calls>>

\* The calls of the helper functions of a list, for the scenario of future j.
HelperCalls(call, fns, j) ==
    [k \in 1..Len(fns) |-> Visit(call, j, k, helper_fn(fns[k], futures[j].scenario))]

\* output.visit_scenario(rule, &scenario); the before_fns; W::default(), whose
\* panic run_scenario passes on; let mut is_success = true; let mut
\* is_skipping = false.
RunScenario_Start ==
    /\ rs_pc = "join_all"
    /\ tasks[jp].pc = "start"
    /\ visits' = Append(visits, Visit("visit_scenario", jp, 0, ""))
                    \o HelperCalls("before_fn", BeforeFns, jp)
    /\ IF sr_default_ok
       THEN /\ tasks' = [tasks EXCEPT ![jp] =
                           [@ EXCEPT !.pc = "steps", !.sti = 1, !.world = Some(<<>>),
                                     !.is_success = TRUE, !.is_skipping = FALSE]]
            /\ UNCHANGED <<sr_pc, rs_pc>>
       ELSE /\ sr_pc' = "aborted"
            /\ rs_pc' = "aborted"
            /\ UNCHANGED tasks
    /\ UNCHANGED <<runner_vars, capture_vars, sr_files, sr_bag, sr_default_ok, sr_fi, sr_ri, sr_is_success,
                   rs_scenarios, rs_options, rs_si, rs_row, futures, jp, rs_result,
                   test_calls>>

\* A variant of step_result for which a skipped step fails the scenario.
step_result_SkipFails(task, test_result) ==
    CASE test_result = "Pass" -> [task EXCEPT !.sti = @ + 1]
      [] OTHER -> [task EXCEPT !.sti = @ + 1, !.is_success = FALSE, !.is_skipping = TRUE]

\* match result { Pass => {}, Fail(..) => { is_success = false; is_skipping =
\* true; }, _ => { is_skipping = true; .. } }, and the loop goes on.
step_result(task, test_result) ==
    CASE test_result = "Pass" -> [task EXCEPT !.sti = @ + 1]
      [] test_result = "Fail" ->
            [task EXCEPT !.sti = @ + 1, !.is_success = FALSE, !.is_skipping = TRUE]
      [] OTHER -> [task EXCEPT !.sti = @ + 1, !.is_skipping = TRUE]

\* A variant of ResultVisits that reports the scenario as skipped after a
\* failed step as well.
ResultVisits_SkippedOnFail(j, sti_, test_result) ==
    <<Visit("visit_step_result", j, sti_, test_result)>> \o
    (IF test_result = "Pass" THEN <<>>
     ELSE <<Visit("visit_scenario_skipped", j, 0, "")>>)

\* The visitor calls after run_test: visit_step_result, and
\* visit_scenario_skipped if the result is neither Pass nor Fail.
ResultVisits(j, sti_, test_result) ==
    <<Visit("visit_step_result", j, sti_, test_result)>> \o
    (IF test_result \in {"Pass", "Fail"} THEN <<>>
     ELSE <<Visit("visit_scenario_skipped", j, 0, "")>>)

\* A call of a step function by run_test: by which run, for which step, of
\* which kind, and the World it was handed.
TestCall(j, task, step_fn) ==
    [file |-> sr_fi, rule |-> sr_ri, run |-> j, index |-> task.sti,
     step |-> TaskSteps(j)[task.sti], step_fn |-> step_fn, world |-> task.world.value]

\* One iteration of the loop over the steps, up to its end or up to the point
\* where the future of an asynchronous step function is pending.
RunScenario_Step ==
    /\ rs_pc = "join_all"
    /\ tasks[jp].pc = "steps"
    /\ tasks[jp].sti <= Len(TaskSteps(jp))
    /\ LET task == tasks[jp]
           step == TaskSteps(jp)[task.sti]
           step_fn == test_bag_get(sr_bag, step)
           visit_step == Visit("visit_step", jp, task.sti, "")
       IN IF ~step_fn.some
          THEN /\ visits' = visits \o
                     <<visit_step, Visit("visit_step_result", jp, task.sti, "Unimplemented")>>
                     \o (IF task.is_skipping THEN <<>>
                         ELSE <<Visit("visit_scenario_skipped", jp, 0, "")>>)
               /\ tasks' = [tasks EXCEPT ![jp] =
                              [task EXCEPT !.sti = @ + 1, !.is_skipping = TRUE]]
               /\ UNCHANGED <<sr_pc, jp, rs_pc, rs_result, test_calls>>
          ELSE IF task.is_skipping
          THEN /\ visits' = visits \o
                     <<visit_step, Visit("visit_step_result", jp, task.sti, "Skipped")>>
               /\ tasks' = [tasks EXCEPT ![jp] = [task EXCEPT !.sti = @ + 1]]
               /\ UNCHANGED <<sr_pc, jp, rs_pc, rs_result, test_calls>>
          ELSE IF step_fn.value = SyncStepFn
                  /\ regexp_matches(step.value).regex
                  /\ ~regexp_matches(step.value).captures.some
          THEN /\ visits' = Append(visits, visit_step)
               /\ sr_pc' = "aborted"
               /\ rs_pc' = "aborted"
               /\ UNCHANGED <<tasks, jp, rs_result, test_calls>>
          ELSE \E beh \in StepBehaviours(step_fn.value) :
                 /\ test_calls' = Append(test_calls, TestCall(jp, task, step_fn.value))
                 /\ IF beh.suspends > 0
                    THEN /\ visits' = Append(visits, visit_step)
                         /\ EndPoll([tasks EXCEPT ![jp] =
                                       [task EXCEPT !.pc = "awaiting", !.beh = Some(beh),
                                                    !.pending = beh.suspends - 1]])
                         /\ UNCHANGED sr_pc
                    ELSE /\ visits' = Append(visits, visit_step)
                                         \o ResultVisits(jp, task.sti, run_test(beh))
                         /\ tasks' = [tasks EXCEPT ![jp] =
                                        step_result(
                                            [task EXCEPT !.world =
                                                Some(world_after(@.value, step_fn.value,
                                                                 step, beh))],
                                            run_test(beh))]
                         /\ UNCHANGED <<sr_pc, jp, rs_pc, rs_result>>
    /\ UNCHANGED <<runner_vars, capture_vars, sr_files, sr_bag, sr_default_ok, sr_fi, sr_ri, sr_is_success,
                   rs_scenarios, rs_options, rs_si, rs_row, futures>>

\* The future that is pending in run_test(..).await is polled again: the step
\* function's future is still pending, or it is ready and the iteration of
\* the loop over the steps is completed.
RunScenario_Resume ==
    /\ rs_pc = "join_all"
    /\ tasks[jp].pc = "awaiting"
    /\ LET task == tasks[jp]
           beh == task.beh.value
       IN IF task.pending > 0
          THEN /\ EndPoll([tasks EXCEPT ![jp] = [task EXCEPT !.pending = @ - 1]])
               /\ UNCHANGED visits
          ELSE /\ visits' = visits \o ResultVisits(jp, task.sti, run_test(beh))
               /\ tasks' = [tasks EXCEPT ![jp] =
                              step_result([task EXCEPT !.pc = "steps", !.beh = None],
                                          run_test(beh))]
               /\ UNCHANGED <<jp, rs_pc, rs_result>>
    /\ UNCHANGED <<runner_vars, capture_vars, run_vars, rs_scenarios, rs_options, rs_si, rs_row, futures,
                   test_calls>>

\* The loop over the steps is over: the after_fns,
\* output.visit_scenario_end(rule, &scenario), and the future is ready with
\* is_success.
RunScenario_End ==
    /\ rs_pc = "join_all"
    /\ tasks[jp].pc = "steps"
    /\ tasks[jp].sti > Len(TaskSteps(jp))
    /\ visits' = visits \o HelperCalls("after_fn", AfterFns, jp)
                    \o <<Visit("visit_scenario_end", jp, 0, "")>>
    /\ EndPoll([tasks EXCEPT ![jp] = [@ EXCEPT !.pc = "done"]])
    /\ UNCHANGED <<runner_vars, capture_vars, run_vars, rs_scenarios, rs_options, rs_si, rs_row, futures,
                   test_calls>>

StepsNext ==
    \/ StepsRun_Start
    \/ StepsRun_OpenFails
    \/ StepsRun_FeatureError
    \/ StepsRun_Feature
    \/ StepsRun_ScenariosDone
    \/ StepsRun_Rule
    \/ StepsRun_RuleEnd
    \/ StepsRun_FeatureEnd
    \/ StepsRun_Finish
    \/ RunScenarios_TagSkip
    \/ RunScenarios_Outline
    \/ RunScenarios_Row
    \/ RunScenarios_RowsDone
    \/ RunScenarios_Plain
    \/ RunScenarios_Join
    \/ RunScenario_Start
    \/ RunScenario_Step
    \/ RunScenario_Resume
    \/ RunScenario_End

SpecSteps == StepsInit /\ [][StepsNext]_vars

\* ------------------------------------- Runner::run_step: the capture slot

\* PanicInfo: the location and payload the panic hook builds from the panic of
\* the step's handler, the one the hook builds on another thread that panics
\* while the step runs, and PanicInfo::unknown().
PanicInfo_of(payload) == [location |-> "handler", payload |-> coerce_error(payload)]

PanicInfo_other == [location |-> "elsewhere", payload |-> "other thread"]

PanicInfo_unknown == [location |-> "unknown", payload |-> "(No panic info was found?)"]

\* TestEvent::Failure(StepFailureKind::Panic(output, pi))
TestEvent_FailurePanic(pi) == [type |-> "Failure", kind |-> "Panic", pi |-> pi]

\* What the handler does in the poll of the step future: it returns, or it
\* panics with a payload.
CaptureBehaviours ==
    { b \in Behaviours("BasicSync") : b.delay = 0 }

\* run_step is called for a resolved step: the slot is created empty and the
\* hook is installed.
CaptureInit ==
    /\ RunnerIdle
    /\ StepsIdle
    /\ cap_timeout \in {NoTimeout} \cup {SomeTimeout(t) : t \in 1..MaxTimeout}
    /\ cap_beh \in CaptureBehaviours
    /\ cap_pc = "handler"
    /\ cap_elapsed = 0
    /\ cap_lock = "free"
    /\ cap_slot = None
    /\ cap_gave_up = {}
    /\ cap_result = NoResult

\* Mutex::try_lock as the step's thread sees it.
try_lock == IF cap_lock = "free" THEN "Ok" ELSE "WouldBlock"

\* start_point.elapsed() < step_timeout
in_time == cap_elapsed < cap_timeout.ticks

\* The step future is polled: the handler returns, or it panics and the panic
\* hook is entered on the step's thread (let start_point = Instant::now()).
Capture_Handler ==
    /\ cap_pc = "handler"
    /\ cap_pc' = IF cap_beh.end = "return" THEN "classify" ELSE "hook"
    /\ cap_elapsed' = 0
    /\ UNCHANGED <<runner_vars, steps_vars, cap_timeout, cap_beh, cap_lock, cap_slot,
                   cap_gave_up, cap_result>>

\* Time passes while a try_lock loop is running.
Capture_Tick ==
    /\ cap_pc \in {"hook", "reader"}
    /\ cap_timeout.some
    /\ in_time
    /\ cap_elapsed' = cap_elapsed + 1
    /\ UNCHANGED <<runner_vars, steps_vars, cap_timeout, cap_beh, cap_pc, cap_lock, cap_slot,
                   cap_gave_up, cap_result>>

\* Another thread panics while the step runs: the hook, on that thread, locks
\* the slot ...
Capture_OtherLocks ==
    /\ cap_pc \in {"handler", "hook", "classify", "reader"}
    /\ cap_lock = "free"
    /\ cap_lock' = "other"
    /\ UNCHANGED <<runner_vars, steps_vars, cap_timeout, cap_beh, cap_pc, cap_elapsed,
                   cap_slot, cap_gave_up, cap_result>>

\* ... and writes the PanicInfo of its panic and unlocks.
Capture_OtherUnlocks ==
    /\ cap_pc \in {"handler", "hook", "classify", "reader"}
    /\ cap_lock = "other"
    /\ cap_lock' = "free"
    /\ cap_slot' = Some(PanicInfo_other)
    /\ UNCHANGED <<runner_vars, steps_vars, cap_timeout, cap_beh, cap_pc, cap_elapsed,
                   cap_gave_up, cap_result>>

\* The panic hook with a step timeout: one iteration of its try_lock loop. It
\* writes the PanicInfo and returns, or goes on trying, or returns without
\* writing once the timeout has elapsed; the panic then unwinds to
\* catch_unwind.
Hook_TryLock ==
    /\ cap_pc = "hook"
    /\ cap_timeout.some
    /\ IF try_lock = "Ok"
       THEN /\ cap_slot' = Some(PanicInfo_of(cap_beh.payload))
            /\ cap_pc' = "classify"
            /\ UNCHANGED cap_gave_up
       ELSE IF in_time
       THEN UNCHANGED <<cap_slot, cap_pc, cap_gave_up>>
       ELSE /\ cap_gave_up' = cap_gave_up \cup {"writer"}
            /\ cap_pc' = "classify"
            /\ UNCHANGED cap_slot
    /\ UNCHANGED <<runner_vars, steps_vars, cap_timeout, cap_beh, cap_elapsed, cap_lock,
                   cap_result>>

\* The panic hook without a step timeout: *panic_info0.lock().unwrap() =
\* panic_info, which waits for the lock.
Hook_Lock ==
    /\ cap_pc = "hook"
    /\ ~cap_timeout.some
    /\ cap_lock = "free"
    /\ cap_slot' = Some(PanicInfo_of(cap_beh.payload))
    /\ cap_pc' = "classify"
    /\ UNCHANGED <<runner_vars, steps_vars, cap_timeout, cap_beh, cap_elapsed, cap_lock,
                   cap_gave_up, cap_result>>

\* match result: Ok(w) => Success; Err(PanicError(e)) with the skip payload =>
\* Skipped; any other panic goes on to read the slot (let start_point =
\* Instant::now()).
Capture_Classify ==
    /\ cap_pc = "classify"
    /\ IF cap_beh.end = "return"
       THEN cap_result' = [type |-> "Success"] /\ cap_pc' = "returned"
       ELSE IF coerce_error(cap_beh.payload) = TEST_SKIPPED
       THEN cap_result' = TestEvent_Skipped /\ cap_pc' = "returned"
       ELSE UNCHANGED cap_result /\ cap_pc' = "reader"
    /\ cap_elapsed' = 0
    /\ UNCHANGED <<runner_vars, steps_vars, cap_timeout, cap_beh, cap_lock, cap_slot,
                   cap_gave_up>>

\* guard.take().unwrap_or_else(PanicInfo::unknown)
take_or_unknown == IF cap_slot.some THEN cap_slot.value ELSE PanicInfo_unknown

\* A variant of Reader_TryLock that goes on trying whatever time has elapsed.
Reader_TryLock_NoGiveUp ==
    /\ cap_pc = "reader"
    /\ cap_timeout.some
    /\ try_lock = "Ok"
    /\ cap_result' = TestEvent_FailurePanic(take_or_unknown)
    /\ cap_slot' = None
    /\ cap_pc' = "returned"
    /\ UNCHANGED <<runner_vars, steps_vars, cap_timeout, cap_beh, cap_elapsed, cap_lock,
                   cap_gave_up>>

\* run_step with a step timeout reads the slot: one iteration of its try_lock
\* loop. It takes what the slot holds, or awaits a short Delay and goes on
\* trying, or settles for PanicInfo::unknown() once the timeout has elapsed.
Reader_TryLock ==
    /\ cap_pc = "reader"
    /\ cap_timeout.some
    /\ IF try_lock = "Ok"
       THEN /\ cap_result' = TestEvent_FailurePanic(take_or_unknown)
            /\ cap_slot' = None
            /\ cap_pc' = "returned"
            /\ UNCHANGED cap_gave_up
       ELSE IF in_time
       THEN UNCHANGED <<cap_result, cap_slot, cap_pc, cap_gave_up>>
       ELSE /\ cap_result' = TestEvent_FailurePanic(PanicInfo_unknown)
            /\ cap_gave_up' = cap_gave_up \cup {"reader"}
            /\ cap_pc' = "returned"
            /\ UNCHANGED cap_slot
    /\ UNCHANGED <<runner_vars, steps_vars, cap_timeout, cap_beh, cap_elapsed, cap_lock>>

\* run_step without a step timeout: let mut guard = panic_info.lock().unwrap(),
\* which waits for the lock.
Reader_Lock ==
    /\ cap_pc = "reader"
    /\ ~cap_timeout.some
    /\ cap_lock = "free"
    /\ cap_result' = TestEvent_FailurePanic(take_or_unknown)
    /\ cap_slot' = None
    /\ cap_pc' = "returned"
    /\ UNCHANGED <<runner_vars, steps_vars, cap_timeout, cap_beh, cap_elapsed, cap_lock,
                   cap_gave_up>>

CaptureNext ==
    \/ Capture_Handler
    \/ Capture_Tick
    \/ Capture_OtherLocks
    \/ Capture_OtherUnlocks
    \/ Hook_TryLock
    \/ Hook_Lock
    \/ Capture_Classify
    \/ Reader_TryLock
    \/ Reader_Lock

SpecCapture == CaptureInit /\ [][CaptureNext]_vars

\* The step's thread runs and time passes; nothing makes another thread
\* that holds the lock let go of it.
CaptureFairness ==
    /\ WF_vars(Capture_Handler)
    /\ WF_vars(Capture_Tick)
    /\ WF_vars(Hook_TryLock)
    /\ WF_vars(Hook_Lock)
    /\ WF_vars(Capture_Classify)
    /\ WF_vars(Reader_TryLock)
    /\ WF_vars(Reader_Lock)

FairSpecCapture == SpecCapture /\ CaptureFairness

\* ------------------------------------------------ reading the event stream

IsScenarioEvent(e) ==
    /\ e.type = "Feature"
    /\ \/ e.event.type = "Scenario"
       \/ e.event.type = "Rule" /\ e.event.event.type = "Scenario"

\* The ScenarioEvent inside a CucumberEvent, and the scenario it is about.
ScenarioEventOf(e) ==
    IF e.event.type = "Scenario" THEN e.event.event ELSE e.event.event.event

ScenarioRefOf(e) ==
    IF e.event.type = "Scenario" THEN e.event.scenario ELSE e.event.event.scenario

IsScenarioStarting(e) == IsScenarioEvent(e) /\ ScenarioEventOf(e).type = "Starting"

InScenarioPc ==
    pc \in {"scenario_before", "scenario_world", "background", "background_run",
            "background_halt", "steps", "steps_run", "steps_halt", "scenario_after",
            "scenario_end", "scenario_return"}

\* A scenario has been run and its stream has ended; `stream` holds its events
\* until the next scenario starts.
RunOver == stream # <<>> /\ ~InScenarioPc /\ pc # "aborted"

IsStepEvent(se) == se.type \in {"Background", "Step"}

IsTerminal(se) == se.type \in {"Passed", "Skipped", "Failed"}

\* The Background/Step events of a stream, and its terminal ScenarioEvents.
StepEvents(run) == SelectSeq(run, IsStepEvent)

Terminals(run) == SelectSeq(run, IsTerminal)

\* The scenario of the latest run_scenario stream.
RunRef == ScenarioRefOf(events[run_start])

\* The run_step invocations and the scenario-scope hook calls made since the
\* latest run_scenario stream began.
RunStepCalls ==
    LET In(c) == c.at >= run_start
    IN SelectSeq(step_calls, In)

RunHookCalls(list_name) ==
    LET In(c) == c.at >= run_start /\ c.scenario # 0 /\ c.list = list_name
    IN SelectSeq(hook_calls, In)

\* The steps of a scenario run as the tree gives them: the feature's background
\* steps, then the scenario's own steps with the example values inserted.
TreeSteps(ref, example) ==
    LET node == ScenarioNode(ref.feature, ref.rule, ref.scenario)
        bg == features[ref.feature].background
    IN (IF bg.present THEN bg.steps ELSE <<>>) \o
       [j \in 1..Len(node.steps) |->
           IF example.keys = <<>> THEN node.steps[j]
           ELSE [node.steps[j] EXCEPT
                    !.value = ExampleValues_insert_values(example, @)]]

RunTreeSteps == TreeSteps(RunRef, stream[1].example)

\* The hooks of a list that a scenario run has to await, in registration order.
RECURSIVE ScenarioHooksFrom(_, _, _)
ScenarioHooksFrom(list, ref, k) ==
    IF k > Len(list) THEN <<>>
    ELSE (IF /\ list[k].context = "scenario"
             /\ Criteria_eval(list[k], features[ref.feature].name,
                              RuleName(ref.feature, ref.rule),
                              ScenarioNode(ref.feature, ref.rule, ref.scenario).name)
          THEN <<k>> ELSE <<>>) \o ScenarioHooksFrom(list, ref, k + 1)

\* ------------------------------------------------------------------ claims

\* C1: skip-cascade. In every scenario run, once a step event other than
\* Starting and Passed has been yielded (the step's outcome was not Success),
\* no further Background/Step event follows in that run and run_step is not
\* invoked again during it.
C1_SkipCascade ==
    \A j \in 1..Len(stream) :
        (IsStepEvent(stream[j]) /\ stream[j].event.type \notin {"Starting", "Passed"})
        => /\ \A m \in (j + 1)..Len(stream) : ~IsStepEvent(stream[m])
           /\ \A c \in 1..Len(step_calls) : step_calls[c].at < run_start + j - 1

\* C1 witness: a scenario run is over in which a step failed although steps of
\* the scenario were still to come.
C1_Witness ==
    /\ RunOver
    /\ LET steps == StepEvents(stream)
       IN /\ Len(steps) > 0
          /\ steps[Len(steps)].event.type = "Failed"
          /\ Len(steps) < 2 * Len(RunTreeSteps)

\* C2: every scenario run emits at most one terminal ScenarioEvent, and once
\* its stream has ended it has emitted exactly one.
C2_OneTerminal ==
    /\ Len(Terminals(stream)) <= 1
    /\ RunOver => Len(Terminals(stream)) = 1

\* C2 witness: the run of a scenario with no steps at all is over (its stream
\* was exactly Starting, Passed) after an earlier scenario had failed.
C2_Witness ==
    /\ RunOver
    /\ stream = <<ScenarioEvent_Starting(ExampleValues_empty), ScenarioEvent_Passed>>
    /\ stats.scenarios.failed > 0

\* C3: the terminal event of a finished scenario run follows from its steps:
\* Passed iff every step of the scenario (background and own) was started
\* and passed; Failed(Panic) / Failed(TimedOut) iff the last step event is
\* Failed with that kind; Skipped iff the last step event is Unimplemented
\* or Skipped.
C3_TerminalFromSteps ==
    RunOver =>
        LET steps == StepEvents(stream)
            last == IF steps = <<>> THEN "Passed" ELSE steps[Len(steps)].event.type
            kind == IF last = "Failed" THEN steps[Len(steps)].event.kind ELSE ""
            all_passed ==
                /\ Len(steps) = 2 * Len(RunTreeSteps)
                /\ \A j \in 1..Len(steps) : steps[j].event.type \in {"Starting", "Passed"}
            terminal == Terminals(stream)[1]
        IN /\ Len(Terminals(stream)) >= 1
           /\ (terminal = ScenarioEvent_Passed) <=> all_passed
           /\ (terminal = ScenarioEvent_Failed("Panic")) <=> (last = "Failed" /\ kind = "Panic")
           /\ (terminal = ScenarioEvent_Failed("TimedOut"))
                 <=> (last = "Failed" /\ kind = "TimedOut")
           /\ (terminal = ScenarioEvent_Skipped) <=> (last \in {"Unimplemented", "Skipped"})

\* C3 witness: the run is done and has counted a scenario of each terminal
\* kind, the last one run having timed out in its second step.
C3_Witness ==
    /\ pc = "done"
    /\ stats.scenarios.passed > 0
    /\ stats.scenarios.skipped > 0
    /\ stats.scenarios.failed > 0
    /\ Terminals(stream) = <<ScenarioEvent_Failed("TimedOut")>>
    /\ Len(StepEvents(stream)) = 4

\* C4: in every scenario run the step events come in pairs: a Starting for a
\* step, then one terminal step event (Passed, Skipped, Failed, Unimplemented)
\* for the same step in the same envelope, before any other step's event; a
\* Starting without its terminal event exists only while run_step is
\* running; and a terminal step event other than Passed is the last step
\* event of the run.
C4_StepEventPairs ==
    LET steps == StepEvents(stream)
        n == Len(steps)
    IN /\ \A j \in 1..n :
             IF j % 2 = 1
             THEN steps[j].event.type = "Starting"
             ELSE /\ steps[j].event.type \in {"Passed", "Skipped", "Failed", "Unimplemented"}
                  /\ steps[j].step = steps[j - 1].step
                  /\ steps[j].type = steps[j - 1].type
                  /\ steps[j].event.type # "Passed" => j = n
       /\ n % 2 = 1 => pc \in {"background_run", "steps_run"}
       /\ RunOver => n % 2 = 0

\* C4 witness: a finished run with three Starting/terminal pairs of which the
\* last is not Passed.
C4_Witness ==
    /\ RunOver
    /\ LET steps == StepEvents(stream)
       IN /\ Len(steps) = 6
          /\ steps[6].event.type = "Unimplemented"
          /\ steps[4].event.type = "Passed"
          /\ steps[3].step # steps[1].step

\* C5 (as stated): whenever a step timeout is configured and the handler
\* of a resolved step takes longer than the timeout, run_step's result is
\* Failure(TimedOut), whatever the handler's call shape.
C5_TimeoutAnyShape ==
    (/\ last_call.made
     /\ last_call.func.some
     /\ step_timeout.some
     /\ last_call.beh.delay > step_timeout.ticks)
    => last_call.result = TestEvent_Failure("TimedOut")

\* The handler's own outcome reached run_step: the timer did not win the select.
HandlerObserved ==
    ~(step_timeout.some /\ select_timeout_first(step_timeout, last_call.beh))

\* The number of events of the run that satisfy a predicate on ScenarioEvents.
CountScenarioEvents(P(_)) ==
    Cardinality({k \in 1..Len(events) :
                    IsScenarioEvent(events[k]) /\ P(ScenarioEventOf(events[k]))})

\* C6: a handler panic whose payload is the skip sentinel (as a String or as
\* a &str) makes run_step return Skipped, and any other payload makes it
\* return Failure(Panic); a StepEvent Skipped is the run's last step event
\* and is followed at once by ScenarioEvent Skipped; and only Failed(Panic)
\* events are counted as failed steps and failed scenarios, so a skip counts
\* nothing as failed.
C6_SkipSentinel ==
    /\ (last_call.made /\ last_call.func.some /\ last_call.beh.end = "panic"
            /\ HandlerObserved)
       => IF /\ last_call.beh.payload.type \in {"String", "str"}
             /\ last_call.beh.payload.text = TEST_SKIPPED
          THEN /\ last_call.result = TestEvent_Skipped
               /\ stream[Len(stream)].event = StepEvent_Skipped
               /\ pc \in {"background_halt", "steps_halt"}
          ELSE last_call.result = TestEvent_Failure("Panic")
    /\ \A j \in 1..Len(stream) :
          (IsStepEvent(stream[j]) /\ stream[j].event = StepEvent_Skipped)
          => IF j = Len(stream) THEN pc \in {"background_halt", "steps_halt"}
             ELSE j = Len(stream) - 1 /\ stream[j + 1] = ScenarioEvent_Skipped
    /\ LET FailedStep(se) == IsStepEvent(se) /\ se.event = StepEvent_Failed("Panic")
           FailedScenario(se) == se = ScenarioEvent_Failed("Panic")
       IN /\ stats.steps.failed = CountScenarioEvents(FailedStep)
          /\ stats.scenarios.failed = CountScenarioEvents(FailedScenario)
          /\ Len(stats.failed_scenarios) = CountScenarioEvents(FailedScenario)

\* C6 witness: the first scenario run has just been ended by a handler that
\* panicked with the skip sentinel: its stream ends with StepEvent
\* Skipped, ScenarioEvent Skipped, and one skipped step, one skipped scenario
\* and no failure have been counted.
C6_Witness ==
    /\ pc = "scenario_after"
    /\ result = TestEvent_Skipped
    /\ Len(stream) >= 3
    /\ stream[Len(stream)] = ScenarioEvent_Skipped
    /\ stream[Len(stream) - 1].event = StepEvent_Skipped
    /\ stats.steps.skipped = 1
    /\ stats.scenarios.skipped = 1
    /\ stats.steps.failed = 0
    /\ stats.scenarios.failed = 0
    /\ stats.failed_scenarios = <<>>

\* The position of a scenario instance in its feature: rule, scenario, row.
InstanceKey(e) ==
    LET ref == ScenarioRefOf(e)
        example == ScenarioEventOf(e).example
        rows == ScenarioNode(ref.feature, ref.rule, ref.scenario).examples
    IN <<ref.rule, ref.scenario,
         IF example.keys = <<>> THEN 0
         ELSE CHOOSE x \in 1..Len(rows.rows) : rows.rows[x] = example.values>>

KeyBefore(a, b) ==
    \/ a[1] < b[1]
    \/ a[1] = b[1] /\ a[2] < b[2]
    \/ a[1] = b[1] /\ a[2] = b[2] /\ a[3] < b[3]

\* C7: the scenario instances of a feature run one after another in input
\* order. While a run_scenario stream is open, every scenario event is about
\* its scenario; and when an instance's Starting is yielded, the instance
\* started before it in the same feature comes earlier in the input, has
\* yielded exactly one terminal event, all its events lie before the
\* Starting, and the after-hooks that apply to it have all been awaited.
C7_Sequential ==
    /\ stream # <<>> =>
          \A k \in run_start..Len(events) :
              IsScenarioEvent(events[k]) => ScenarioRefOf(events[k]) = RunRef
    /\ (stream # <<>> /\ run_start = Len(events)) =>
          LET earlier == {p \in 1..(run_start - 1) :
                             /\ IsScenarioStarting(events[p])
                             /\ ScenarioRefOf(events[p]).feature = RunRef.feature}
          IN earlier # {} =>
                LET p == CHOOSE q \in earlier : \A o \in earlier : o <= q
                    between == {k \in p..(run_start - 1) : IsScenarioEvent(events[k])}
                    hooks == ScenarioHooksFrom(after, ScenarioRefOf(events[p]), 1)
                IN /\ KeyBefore(InstanceKey(events[p]), InstanceKey(events[run_start]))
                   /\ \A k \in between : ScenarioRefOf(events[k]) = ScenarioRefOf(events[p])
                   /\ Cardinality({k \in between : IsTerminal(ScenarioEventOf(events[k]))}) = 1
                   /\ \A h \in 1..Len(hooks) :
                         \E c \in 1..Len(hook_calls) :
                             /\ hook_calls[c].list = "after"
                             /\ hook_calls[c].scenario # 0
                             /\ hook_calls[c].index = hooks[h]
                             /\ hook_calls[c].at >= p
                             /\ hook_calls[c].at < run_start

\* C7 witness: the second scenario of rule R1 has just started, after the
\* rule's first scenario had failed and the outline's rows had all run.
C7_Witness ==
    /\ stream # <<>>
    /\ run_start = Len(events)
    /\ RunRef = ScenarioRef(1, 1, 2)
    /\ stats.scenarios.total = NumRows + 4
    /\ return_event = Some(RuleEvent_Failed("Panic"))

\* The scenario instances of a feature that pass the filter.
Instances(f) ==
    LET Passes(name) == ~scenario_filter.some \/ Regex_is_match(scenario_filter, name)
        feature == features[f]
    IN { [ref |-> ScenarioRef(f, 0, s), example |-> x] :
            <<s, x>> \in
              UNION { {s} \X { ExampleValues_from_examples(feature.scenarios[s].examples)[i] :
                               i \in 1..Len(ExampleValues_from_examples(
                                               feature.scenarios[s].examples)) } :
                      s \in {t \in 1..Len(feature.scenarios) :
                                Passes(feature.scenarios[t].name)} } }
       \cup
       UNION { { [ref |-> ScenarioRef(f, r, s), example |-> ExampleValues_empty] :
                    s \in {t \in 1..Len(feature.rules[r].scenarios) :
                              Passes(feature.rules[r].scenarios[t].name)} } :
               r \in 1..Len(feature.rules) }

Started ==
    { [ref |-> ScenarioRefOf(events[k]), example |-> ScenarioEventOf(events[k]).example] :
        k \in {j \in 1..Len(events) : IsScenarioStarting(events[j])} }

\* C8: failure isolation. When the run is done, every scenario instance of
\* every feature that passes the filter has yielded Starting, whatever the
\* outcomes of the scenarios before it; and every scenario run goes through
\* its own steps from the first one, which is handed a fresh World.
C8_FailureIsolation ==
    /\ pc = "done" => \A f \in 1..Len(features) : Instances(f) \subseteq Started
    /\ RunOver => Len(stream) >= 2
    /\ Len(stream) >= 2 =>
          IF RunTreeSteps = <<>> THEN stream[2] = ScenarioEvent_Passed
          ELSE /\ IsStepEvent(stream[2])
               /\ stream[2].step = RunTreeSteps[1]
               /\ stream[2].event = StepEvent_Starting
    /\ (stream # <<>> /\ RunStepCalls # <<>>) =>
          /\ RunStepCalls[1].world = <<>>
          /\ RunStepCalls[1].step = RunTreeSteps[1]

\* C8 witness: the whole unfiltered two-feature suite is done; the very first
\* scenario instance failed, later ones were skipped, timed out and passed,
\* and all NumRows + 5 instances were started.
C8_Witness ==
    /\ pc = "done"
    /\ ~scenario_filter.some
    /\ Len(features) = 2
    /\ stats.failed_scenarios # <<>>
    /\ stats.failed_scenarios[1] = ScenarioRef(1, 0, 1)
    /\ stats.scenarios.failed >= 2
    /\ stats.scenarios.timed_out >= 1
    /\ stats.scenarios.passed >= 1
    /\ Cardinality(Started) = NumRows + 5

\* C9: World threading. The run_step invocations of a scenario run take the
\* scenario's steps in order, background first; the first is passed the
\* World made by W::new(), and each later one is passed exactly the World
\* the handler of the step before it returned; no World is passed twice.
C9_WorldThreading ==
    stream # <<>> =>
        LET calls == RunStepCalls
            steps == RunTreeSteps
            nbg == IF features[RunRef.feature].background.present
                   THEN Len(features[RunRef.feature].background.steps) ELSE 0
        IN /\ Len(calls) <= Len(steps)
           /\ \A i \in 1..Len(calls) :
                 /\ calls[i].step = steps[i]
                 /\ calls[i].scenario = RunRef
                 /\ calls[i].phase = IF i <= nbg THEN "background" ELSE "steps"
                 /\ calls[i].index = IF i <= nbg THEN i ELSE i - nbg
                 /\ calls[i].world =
                       IF i = 1 THEN <<>>
                       ELSE HandlerWorld(calls[i - 1].world, calls[i - 1].step)
                 /\ \A j \in 1..(i - 1) : calls[j].world # calls[i].world
           /\ (world.some /\ calls # <<>> /\ pc \in {"background", "steps", "background_run",
                                                    "steps_run"})
              => world.value = HandlerWorld(calls[Len(calls)].world, calls[Len(calls)].step)

\* C9 witness: a scenario with a background step and two own steps has had
\* run_step invoked for all three, the third with the World that went
\* through the two handlers before it.
C9_Witness ==
    /\ stream # <<>>
    /\ Len(RunStepCalls) = 3
    /\ RunStepCalls[3].world = <<StepBg.value, StepEat.value>>
    /\ RunStepCalls[3].phase = "steps"
    /\ RunStepCalls[1].phase = "background"

\* C10: the scenario-scope after-hooks whose criteria match a scenario are
\* awaited in registration order, each at most once while the scenario runs
\* and each exactly once by the time its stream has ended, whatever the
\* scenario's outcome; no other after-hook is awaited for the scenario.
C10_AfterHooks ==
    stream # <<>> =>
        LET calls == RunHookCalls("after")
            hooks == ScenarioHooksFrom(after, RunRef, 1)
        IN /\ Len(calls) <= Len(hooks)
           /\ \A i \in 1..Len(calls) :
                 /\ calls[i].index = hooks[i]
                 /\ calls[i].feature = RunRef.feature
                 /\ calls[i].rule = RunRef.rule
                 /\ calls[i].scenario = RunRef.scenario
           /\ (RunOver \/ pc \in {"scenario_end", "scenario_return"})
              => Len(calls) = Len(hooks)
           /\ pc \in {"scenario_before", "scenario_world", "background", "background_run",
                      "background_halt", "steps", "steps_run", "steps_halt"}
              => calls = <<>>

\* C10 witness: a scenario to which two after-hooks apply has timed out, its
\* stream has ended, and both hooks were awaited.
C10_Witness ==
    /\ RunOver
    /\ Terminals(stream) = <<ScenarioEvent_Failed("TimedOut")>>
    /\ Len(ScenarioHooksFrom(after, RunRef, 1)) = 2
    /\ Len(RunHookCalls("after")) = 2

\* C11 (as stated): whatever the outcome of a scenario, its scenario-scope
\* after-hooks are awaited after its terminal event: whenever an after-hook
\* has been awaited for the running scenario, the terminal event of the
\* scenario has already been yielded.
C11_AfterHooksAfterTerminal ==
    (stream # <<>> /\ RunHookCalls("after") # <<>>) => Len(Terminals(stream)) = 1

\* C12: in every scenario run the scenario-scope before-hooks whose criteria
\* match are awaited once each in registration order, right after Starting
\* and before any other event; they have all been awaited before the World
\* is constructed and before run_step is invoked; no other before-hook is
\* awaited for the scenario.
C12_BeforeHooks ==
    stream # <<>> =>
        LET calls == RunHookCalls("before")
            hooks == ScenarioHooksFrom(before, RunRef, 1)
        IN /\ Len(calls) <= Len(hooks)
           /\ \A i \in 1..Len(calls) :
                 /\ calls[i].index = hooks[i]
                 /\ calls[i].feature = RunRef.feature
                 /\ calls[i].rule = RunRef.rule
                 /\ calls[i].scenario = RunRef.scenario
                 /\ calls[i].at = run_start
           /\ pc # "scenario_before" => Len(calls) = Len(hooks)
           /\ pc = "scenario_before" =>
                 /\ ~world.some
                 /\ Len(stream) = 1
                 /\ RunStepCalls = <<>>

\* C12 witness: both before-hooks that apply to the first scenario of rule R1
\* have been awaited and the World is about to be constructed.
C12_Witness ==
    /\ pc = "scenario_world"
    /\ RunRef = ScenarioRef(1, 1, 1)
    /\ Len(ScenarioHooksFrom(before, RunRef, 1)) = 2
    /\ Len(RunHookCalls("before")) = 2
    /\ Len(stream) = 1

\* The last event of the run is the terminal event of a rule.
IsRuleTerminal(e) ==
    /\ e.type = "Feature"
    /\ e.event.type = "Rule"
    /\ e.event.event.type \in {"Passed", "Skipped", "Failed"}

IsRuleStarting(e) ==
    e.type = "Feature" /\ e.event.type = "Rule" /\ e.event.event.type = "Starting"

RuleJustFinished == events # <<>> /\ IsRuleTerminal(events[Len(events)])

\* The terminal event of the rule that has just finished, and the terminal
\* events its scenarios yielded.
RuleTerminal == events[Len(events)].event.event

RuleOutcomes ==
    LET starts == {k \in 1..Len(events) : IsRuleStarting(events[k])}
        from == CHOOSE k \in starts : \A n \in starts : n <= k
    IN { ScenarioEventOf(events[k]) :
           k \in {j \in from..Len(events) :
                     IsScenarioEvent(events[j]) /\ IsTerminal(ScenarioEventOf(events[j]))} }

\* C13 (as stated): the terminal event of a rule is Failed(Panic) if any of
\* its scenarios ended Failed(Panic), whatever their order and whether or
\* not others timed out; otherwise it is Failed(TimedOut) if any of its
\* scenarios ended Failed(TimedOut).
C13_RulePrecedence ==
    RuleJustFinished =>
        IF ScenarioEvent_Failed("Panic") \in RuleOutcomes
        THEN RuleTerminal = RuleEvent_Failed("Panic")
        ELSE ScenarioEvent_Failed("TimedOut") \in RuleOutcomes
                => RuleTerminal = RuleEvent_Failed("TimedOut")

\* C14 (as stated): when no scenario of a rule failed or timed out, the
\* rule's terminal event is Passed if at least one of its scenarios passed
\* (in any position, also next to skipped ones) and Skipped otherwise.
C14_RuleNoFailures ==
    (/\ RuleJustFinished
     /\ ScenarioEvent_Failed("Panic") \notin RuleOutcomes
     /\ ScenarioEvent_Failed("TimedOut") \notin RuleOutcomes)
    => RuleTerminal = IF ScenarioEvent_Passed \in RuleOutcomes
                      THEN RuleEvent_Passed ELSE RuleEvent_Skipped

\* C15 (as stated): when a scenario-name filter is configured, nothing is run
\* for a scenario whose name does not match it, be it directly under the
\* feature or under one of its rules: every run_scenario stream, with its
\* events, hooks, World and steps, is for a scenario whose name matches.
C15_FilterSilences ==
    (scenario_filter.some /\ stream # <<>>)
    => Regex_is_match(scenario_filter,
                      ScenarioNode(RunRef.feature, RunRef.rule, RunRef.scenario).name)

\* The RunResult carried by CucumberEvent::Finished, once the run is done.
FinishedResult == events[Len(events)].result

IsStartingAt(k) == IsScenarioStarting(events[k])

\* C16: scenarios.total counts the ScenarioEvent::Starting events: at every
\* moment the collector's scenarios.total is the number of Starting events
\* yielded so far, and the RunResult of CucumberEvent::Finished carries the
\* number of Starting events of the whole run, one for each scenario
\* instance started, under features and under rules.
C16_ScenariosTotal ==
    /\ stats.scenarios.total = Cardinality({k \in 1..Len(events) : IsStartingAt(k)})
    /\ pc = "done" =>
          /\ events[Len(events)].type = "Finished"
          /\ FinishedResult.scenarios.total =
                Cardinality({k \in 1..Len(events) : IsStartingAt(k)})
          /\ FinishedResult.scenarios.total = Cardinality(Started)

\* C16 witness: the unfiltered two-feature suite is done and its RunResult
\* counts NumRows + 5 scenarios, two of them started under a rule.
C16_Witness ==
    /\ pc = "done"
    /\ ~scenario_filter.some
    /\ Len(features) = 2
    /\ FinishedResult.scenarios.total = NumRows + 5
    /\ FinishedResult.rules.total = 1

\* C17 (as stated): at the end of a run failed_scenarios holds one entry for
\* each scenario counted in scenarios.failed and timed_out_scenarios one
\* entry for each scenario counted in scenarios.timed_out.
C17_FailedLists ==
    pc = "done" =>
        /\ Len(FinishedResult.failed_scenarios) = FinishedResult.scenarios.failed
        /\ Len(FinishedResult.timed_out_scenarios) = FinishedResult.scenarios.timed_out

\* C18: RunResult::failed() of the finished run is true exactly if the
\* feature-level or the scenario-level Stats have failed > 0 or
\* timed_out > 0, and exactly if some scenario of the run yielded a terminal
\* Failed(Panic) or Failed(TimedOut) event; a run of passed and skipped
\* scenarios only is not failed.
C18_RunFailed ==
    pc = "done" =>
        LET rr == FinishedResult
            FailedScenario(se) == se.type = "Failed"
        IN /\ RunResult_failed(rr) <=>
                 \/ rr.features.failed > 0 \/ rr.features.timed_out > 0
                 \/ rr.scenarios.failed > 0 \/ rr.scenarios.timed_out > 0
           /\ RunResult_failed(rr) <=> CountScenarioEvents(FailedScenario) > 0

\* C18 witness: a finished run is failed on account of timed-out scenarios
\* alone, next to passed and skipped ones.
C18_Witness ==
    /\ pc = "done"
    /\ RunResult_failed(FinishedResult)
    /\ FinishedResult.scenarios.failed = 0
    /\ FinishedResult.scenarios.timed_out > 0
    /\ FinishedResult.scenarios.passed > 0
    /\ FinishedResult.scenarios.skipped > 0

\* A finished run of passed and skipped scenarios only is reported as not
\* failed.
C18_WitnessNotFailed ==
    /\ pc = "done"
    /\ ~RunResult_failed(FinishedResult)
    /\ FinishedResult.scenarios.passed > 0
    /\ FinishedResult.scenarios.skipped > 0

\* The runs Steps::run_scenarios pushed for the i-th scenario of its input.
RunsOf(i) ==
    LET For(f) == f.origin = i
    IN SelectSeq(futures, For)

\* A text with every placeholder <header[h]> replaced by row[h].
Substituted(text, header, row) ==
    [j \in 1..Len(text) |->
        IF \E h \in 1..Len(header) : text[j] = "<" \o header[h] \o ">"
        THEN row[CHOOSE h \in 1..Len(header) : text[j] = "<" \o header[h] \o ">"]
        ELSE text[j]]

C20_DistinctNames ==
    rs_pc = "joined" =>
        \A i \in 1..Len(rs_scenarios) :
            \A a, b \in 1..Len(RunsOf(i)) :
                a # b => RunsOf(i)[a].scenario.name # RunsOf(i)[b].scenario.name

\* The first step of the running scenario (background first) has no
\* registered function.
FirstStepUnresolved ==
    /\ stream # <<>>
    /\ RunTreeSteps # <<>>
    /\ ~resolve(functions, RunTreeSteps[1]).some

\* C21: a scenario run whose first step resolves to no function yields
\* Starting, then StepEvent Starting and StepEvent Unimplemented for that
\* step, then the terminal ScenarioEvent Skipped, and nothing else; run_step
\* is invoked once, no handler is called and no later step is looked at;
\* the scenario is counted in scenarios.skipped (which counts the Skipped
\* terminals) and not in scenarios.failed (which counts the Failed(Panic)
\* terminals).
C21_FirstStepUnresolved ==
    /\ FirstStepUnresolved =>
          LET first == RunTreeSteps[1]
              bg == features[RunRef.feature].background.present
              phase == IF bg THEN "background" ELSE "steps"
              full == <<stream[1],
                        StepEnvelope(phase, first, StepEvent_Starting),
                        StepEnvelope(phase, first, StepEvent_Unimplemented),
                        ScenarioEvent_Skipped>>
          IN /\ Len(stream) <= 4
             /\ stream = SubSeq(full, 1, Len(stream))
             /\ RunOver => stream = full
             /\ Len(RunStepCalls) <= 1
             /\ \A c \in 1..Len(RunStepCalls) :
                   /\ RunStepCalls[c].step = first
                   /\ ~resolve(functions, RunStepCalls[c].step).some
             /\ last_call.made => ~last_call.func.some /\ last_call.beh = NoBehaviour
    /\ LET SkippedScenario(se) == se = ScenarioEvent_Skipped
           FailedScenario(se) == se = ScenarioEvent_Failed("Panic")
       IN /\ stats.scenarios.skipped = CountScenarioEvents(SkippedScenario)
          /\ stats.scenarios.failed = CountScenarioEvents(FailedScenario)

\* C21 witness: the run of scenario S2, whose first step is unknown and whose
\* second step has a function, is over; it is the only scenario counted as
\* skipped so far and it was not counted as failed.
C21_Witness ==
    /\ RunOver
    /\ FirstStepUnresolved
    /\ RunRef = ScenarioRef(1, 0, 2)
    /\ Len(RunTreeSteps) = 2
    /\ resolve(functions, RunTreeSteps[2]).some
    /\ Len(stream) = 4
    /\ stats.scenarios.skipped = 1
    /\ Len(stats.failed_scenarios) = stats.scenarios.failed

\* C22 (as stated): run_step leaves the process-wide panic hook as it found
\* it on every exit path: once run_step has returned, whatever its result,
\* the hook installed is the one that was installed before the run.
C22_HookRestored ==
    last_call.made => panic_hook = "default"

\* The k-th event of the run is the given FeatureEvent of some feature.
IsFeatureEventAt(k, event) ==
    events[k].type = "Feature" /\ events[k].event = event

\* C24: the stream of Runner::run begins with CucumberEvent Starting, which
\* occurs nowhere else; CucumberEvent Finished occurs only as the last event,
\* exactly when the run is done, carries the collected statistics and
\* directly follows the Finished of the last feature; the features come in
\* input order, each with contiguous events that begin with its one
\* FeatureEvent Starting and end with its one FeatureEvent Finished; once
\* the run is done every feature of the input has had its events.
C24_RunStream ==
    /\ (events = <<>>) <=> (pc = "run")
    /\ events # <<>> => events[1] = CucumberEvent_Starting
    /\ \A k \in 2..Len(events) :
          LET e == events[k]
              prev == events[k - 1]
          IN /\ e.type \in {"Feature", "Finished"}
             /\ e.type = "Feature" =>
                   IF e.event = FeatureEvent_Starting
                   THEN \/ k = 2 /\ e.feature = 1
                        \/ /\ IsFeatureEventAt(k - 1, FeatureEvent_Finished)
                           /\ e.feature = prev.feature + 1
                   ELSE /\ prev.type = "Feature"
                        /\ prev.event # FeatureEvent_Finished
                        /\ e.feature = prev.feature
             /\ e.type = "Finished" =>
                   /\ k = Len(events)
                   /\ pc = "done"
                   /\ IsFeatureEventAt(k - 1, FeatureEvent_Finished)
                   /\ prev.feature = Len(features)
                   /\ e.result = collect(stats)
    /\ pc = "done" =>
          /\ events[Len(events)].type = "Finished"
          /\ \A f \in 1..Len(features) :
                /\ Cardinality({k \in 1..Len(events) :
                       IsFeatureEventAt(k, FeatureEvent_Starting)
                       /\ events[k].feature = f}) = 1
                /\ Cardinality({k \in 1..Len(events) :
                       IsFeatureEventAt(k, FeatureEvent_Finished)
                       /\ events[k].feature = f}) = 1

\* C24 witness: the run of the two-feature suite is done; the second
\* feature's Starting directly followed the first feature's Finished and the
\* stream ended with the second feature's Finished and the run's Finished.
C24_Witness ==
    /\ pc = "done"
    /\ Len(features) = 2
    /\ events[Len(events)].type = "Finished"
    /\ IsFeatureEventAt(Len(events) - 1, FeatureEvent_Finished)
    /\ events[Len(events) - 1].feature = 2
    /\ \E k \in 3..(Len(events) - 2) :
          /\ IsFeatureEventAt(k, FeatureEvent_Finished)
          /\ events[k].feature = 1
          /\ IsFeatureEventAt(k + 1, FeatureEvent_Starting)
          /\ events[k + 1].feature = 2

\* The number of step events of the run (inside Background or Step envelopes)
\* that satisfy a predicate on StepEvents.
CountStepEvents(P(_)) ==
    LET Q(se) == IsStepEvent(se) /\ P(se.event)
    IN CountScenarioEvents(Q)

\* C29 (as stated): when the run is done, steps.total is the number of
\* StepEvent Starting events of the run, and it equals steps.passed +
\* steps.skipped + steps.failed + steps.timed_out.
C29_StepsTotal ==
    pc = "done" =>
        LET rr == FinishedResult
            Starting(ev) == ev = StepEvent_Starting
        IN /\ rr.steps.total = CountStepEvents(Starting)
           /\ rr.steps.total =
                 rr.steps.passed + rr.steps.skipped + rr.steps.failed + rr.steps.timed_out

\* The number of RuleEvents of the run, other than nested scenario events,
\* that equal the given one.
CountRuleEvents(event) ==
    Cardinality({k \in 1..Len(events) :
                    /\ events[k].type = "Feature"
                    /\ events[k].event.type = "Rule"
                    /\ events[k].event.event = event})

\* The Starting events of scenarios run under a rule.
RuleScenarioStarts ==
    {k \in 1..Len(events) : IsStartingAt(k) /\ events[k].event.type = "Rule"}

\* C30: rules.total is the number of RuleEvent Starting events and each
\* other rule counter is the number of rule terminal events of its kind, so
\* the scenario events nested in a rule change no rule counter; when the run
\* is done the four outcome counters add up to rules.total; the feature
\* counters are not touched either (features.total counts the features
\* started); and a scenario under a rule is counted once in scenarios.total,
\* which counts the Starting events of all scenarios, each scenario under a
\* rule having yielded one.
C30_RuleCounters ==
    /\ stats.rules.total = CountRuleEvents(RuleEvent_Starting)
    /\ stats.rules.passed = CountRuleEvents(RuleEvent_Passed)
    /\ stats.rules.skipped = CountRuleEvents(RuleEvent_Skipped)
    /\ stats.rules.failed = CountRuleEvents(RuleEvent_Failed("Panic"))
    /\ stats.rules.timed_out = CountRuleEvents(RuleEvent_Failed("TimedOut"))
    /\ stats.features =
          [Stats_default EXCEPT
              !.total = Cardinality({k \in 1..Len(events) :
                                       IsFeatureEventAt(k, FeatureEvent_Starting)})]
    /\ stats.scenarios.total = Cardinality({k \in 1..Len(events) : IsStartingAt(k)})
    /\ Cardinality({ScenarioRefOf(events[k]) : k \in RuleScenarioStarts})
          = Cardinality(RuleScenarioStarts)
    /\ pc = "done" =>
          LET rr == FinishedResult
          IN /\ rr.rules = stats.rules
             /\ rr.rules.total =
                   rr.rules.passed + rr.rules.skipped + rr.rules.failed + rr.rules.timed_out

\* C30 witness: the unfiltered two-feature suite is done; its one rule ran
\* two scenarios and ended Failed(TimedOut), so rules.total = 1 and
\* rules.timed_out = 1 while scenarios.total counts all NumRows + 5
\* scenario instances, the two under the rule once each.
C30_Witness ==
    /\ pc = "done"
    /\ ~scenario_filter.some
    /\ Len(features) = 2
    /\ FinishedResult.rules.total = 1
    /\ FinishedResult.rules.timed_out = 1
    /\ Cardinality(RuleScenarioStarts) = 2
    /\ FinishedResult.scenarios.total = NumRows + 5

\* C28 (as stated): when a tag is specified in the options, every scenario
\* of the input that does not have that tag, a scenario without any tags
\* included, is skipped: when run_scenarios has gone through its input, no
\* run was pushed for it.
C28_TagSkips ==
    rs_pc = "joined" =>
        \A i \in 1..Len(rs_scenarios) :
            LET scenario == rs_scenarios[i]
                has_tag == /\ scenario.tags.some
                           /\ rs_options.tag.value \in scenario.tags.value
            IN (rs_options.tag.some /\ ~has_tag) => RunsOf(i) = <<>>

\* Two entries of the visitor log or of the step function calls belong to
\* the same call of run_scenarios.
SameCall(a, b) == a.file = b.file /\ a.rule = b.rule

\* C25 (as stated): the scenarios run_scenarios runs execute strictly one
\* after another in input order, also when step functions are asynchronous
\* and suspend: whenever the visitor or a helper function is called for the
\* run of scenario M+1 (visit_scenario, visit_step, ...), visit_scenario_end
\* has already been called for the run of scenario M.
C25_SequentialScenarios ==
    \A v \in 1..Len(visits) :
        visits[v].run > 1 =>
            \E u \in 1..(v - 1) :
                /\ visits[u].call = "visit_scenario_end"
                /\ SameCall(visits[u], visits[v])
                /\ visits[u].run = visits[v].run - 1

\* The call of a step function that came before call c in the same scenario
\* run (0: there is none).
PreviousCall(c) ==
    LET earlier == {b \in 1..(c - 1) :
                       /\ SameCall(test_calls[b], test_calls[c])
                       /\ test_calls[b].run = test_calls[c].run}
    IN IF earlier = {} THEN 0 ELSE CHOOSE b \in earlier : \A o \in earlier : o <= b

\* C26 (as stated): the World a step function is handed is the World the
\* step function before it in the same scenario run left, be that function
\* synchronous or asynchronous: the first is handed W::default(), every
\* later one the World of the call before it with that step's modification.
C26_WorldCarried ==
    \A c \in 1..Len(test_calls) :
        test_calls[c].world =
            IF PreviousCall(c) = 0 THEN <<>>
            ELSE HandlerWorld(test_calls[PreviousCall(c)].world,
                              test_calls[PreviousCall(c)].step)

\* Some step of the run had the given result.
SomeStepResult(test_result) ==
    \E v \in 1..Len(visits) :
        visits[v].call = "visit_step_result" /\ visits[v].result = test_result

\* C27: when Steps::run returns, it returns false exactly if one of the
\* feature files failed to parse or a step of a scenario that was run had
\* the result Fail; steps that were skipped or unimplemented do not make
\* it false, and the condition does not depend on the order of the files,
\* rules and scenarios.
C27_RunResult ==
    sr_pc = "returned" =>
        (~sr_is_success <=>
            \/ \E f \in 1..Len(sr_files) : sr_files[f].status = "invalid"
            \/ SomeStepResult("Fail"))

\* C27 witness: Steps::run has returned true for two features in which a
\* step was skipped by its step function, a step was unimplemented, and an
\* asynchronous step passed.
C27_Witness ==
    /\ sr_pc = "returned"
    /\ sr_is_success
    /\ Len(sr_files) = 2
    /\ SomeStepResult("Skipped")
    /\ SomeStepResult("Unimplemented")
    /\ SomeStepResult("Pass")
    /\ \E c \in 1..Len(test_calls) : test_calls[c].step_fn = AsyncStepFn

\* Steps::run has returned false although every file parsed: a step of a
\* scenario under a rule failed.
C27_WitnessFailed ==
    /\ sr_pc = "returned"
    /\ ~sr_is_success
    /\ \A f \in 1..Len(sr_files) : sr_files[f].status = "ok"
    /\ \E v \in 1..Len(visits) :
          /\ visits[v].call = "visit_step_result"
          /\ visits[v].result = "Fail"
          /\ visits[v].rule > 0

\* What run_step returns after a try_lock loop gave up: after the reader
\* gave up, Failure(Panic) with PanicInfo::unknown(); after the writer alone
\* gave up, Skipped for the skip payload and else Failure(Panic) with what
\* the slot held when it was read, which is not the PanicInfo of the
\* handler's panic. A loop gives up only with a step timeout, when the
\* timeout has elapsed since the loop began.
CaptureOutcome ==
    /\ cap_gave_up # {} => cap_timeout.some
    /\ (cap_pc = "classify" /\ "writer" \in cap_gave_up)
          => cap_elapsed >= cap_timeout.ticks
    /\ (cap_pc = "returned" /\ "reader" \in cap_gave_up)
          => /\ cap_elapsed >= cap_timeout.ticks
             /\ cap_result = TestEvent_FailurePanic(PanicInfo_unknown)
    /\ (cap_pc = "returned" /\ "writer" \in cap_gave_up)
          => IF coerce_error(cap_beh.payload) = TEST_SKIPPED
             THEN cap_result = TestEvent_Skipped
             ELSE cap_result \in {TestEvent_FailurePanic(PanicInfo_unknown),
                                  TestEvent_FailurePanic(PanicInfo_other)}

\* C23 (amended): with a step timeout configured, run_step returns however
\* long another thread holds the lock of the capture slot: the panic hook
\* (writer) and run_step (reader) each give up their try_lock loop once the
\* timeout has elapsed since the loop began. After the reader gave up the
\* step is reported as Failure(Panic) with unknown location; after the
\* writer alone gave up the handler's location is lost, and the step is
\* reported as Skipped if the payload is the skip payload and else as
\* Failure(Panic) with whatever the slot holds when it is read.
C23_BoundedWait ==
    /\ [](cap_timeout.some => <>(cap_pc = "returned"))
    /\ []CaptureOutcome

\* C23 (as stated): with a step timeout configured, whenever the writer or
\* the reader gave up waiting for the lock, the step is reported as
\* Failure(Panic) with unknown location.
C23_GiveUpIsUnknownPanic ==
    (cap_pc = "returned" /\ cap_timeout.some /\ cap_gave_up # {})
    => cap_result = TestEvent_FailurePanic(PanicInfo_unknown)

\* C23 witness: run_step has returned Failure(Panic) with unknown location
\* while another thread still holds the lock: the handler panicked, the
\* writer gave up, and the reader gave up.
C23_Witness ==
    /\ cap_pc = "returned"
    /\ cap_timeout.some
    /\ cap_lock = "other"
    /\ cap_gave_up = {"writer", "reader"}
    /\ cap_slot = None
    /\ cap_result = TestEvent_FailurePanic(PanicInfo_unknown)

\* ------------------------------------------------ rules and hook scopes

\* The hooks of a list with the given scope whose criteria accept the node,
\* in registration order.
RECURSIVE HooksFor(_, _, _, _, _, _)
HooksFor(list, context, f, r, s, k) ==
    IF k > Len(list) THEN <<>>
    ELSE (IF /\ list[k].context = context
             /\ Criteria_eval(list[k], features[f].name, RuleName(f, r),
                              IF s = 0 THEN "" ELSE ScenarioNode(f, r, s).name)
          THEN <<k>> ELSE <<>>) \o HooksFor(list, context, f, r, s, k + 1)

\* The position in events of the latest RuleEvent::Starting; 0 if there is none.
LastRuleStart ==
    LET starts == {k \in 1..Len(events) : IsRuleStarting(events[k])}
    IN IF starts = {} THEN 0 ELSE CHOOSE k \in starts : \A n \in starts : n <= k

\* run_rule's stream is in progress.
InRule ==
    \/ pc \in {"rule_before", "rule_scenarios", "rule_after", "rule_finished"}
    \/ InScenarioPc /\ cur.rule # 0

\* The rule-scope hooks of a list awaited since the latest rule started.
RuleHookCalls(list_name) ==
    LET In(c) == /\ c.list = list_name /\ c.scenario = 0 /\ c.rule # 0
                 /\ c.at >= LastRuleStart
    IN SelectSeq(hook_calls, In)

\* The indices of a sequence of hook calls.
CallIndices(calls) == [i \in 1..Len(calls) |-> calls[i].index]

\* The events of the rule's scenarios that lie in positions from..to of events:
\* they are all RuleEvent::Scenario of the rule r of feature f.
OnlyScenariosOfRule(f, r, from, to) ==
    \A k \in from..to :
        /\ events[k].type = "Feature"
        /\ events[k].feature = f
        /\ events[k].event.type = "Rule"
        /\ events[k].event.rule = r
        /\ events[k].event.event.type = "Scenario"

\* C31: a rule's stream begins with RuleEvent::Starting and, once it has ended,
\* holds exactly one terminal RuleEvent, its last event; everything between
\* the two is an event of one of the rule's scenarios, and every scenario of
\* the rule has run to its terminal event by then. The matching rule-scope
\* before-hooks have all been awaited, in registration order, while Starting
\* is the only event of the rule (so before its first scenario starts); the
\* matching rule-scope after-hooks are awaited only after the last scenario
\* event and have all been awaited when the terminal event is yielded.
C31_RuleDriver ==
    LET from == LastRuleStart
        f == events[from].feature
        r == events[from].event.rule
        last == Len(events)
        StartsIn(to) == {k \in (from + 1)..to : IsScenarioStarting(events[k])}
        EndsIn(to) == {k \in (from + 1)..to : IsTerminal(ScenarioEventOf(events[k]))}
    IN /\ InRule =>
            /\ from # 0 /\ f = fi /\ r = ri
            /\ OnlyScenariosOfRule(f, r, from + 1, last)
            /\ \A i \in 1..Len(RuleHookCalls("before")) :
                   RuleHookCalls("before")[i].at = from
            /\ pc = "rule_before" =>
                   /\ last = from
                   /\ \E n \in 0..Len(HooksFor(before, "rule", f, r, 0, 1)) :
                          CallIndices(RuleHookCalls("before"))
                              = SubSeq(HooksFor(before, "rule", f, r, 0, 1), 1, n)
            /\ pc # "rule_before" =>
                   CallIndices(RuleHookCalls("before")) = HooksFor(before, "rule", f, r, 0, 1)
            /\ pc \notin {"rule_after", "rule_finished"} => RuleHookCalls("after") = <<>>
            /\ pc \in {"rule_after", "rule_finished"} =>
                   /\ Cardinality(StartsIn(last)) = Len(features[f].rules[r].scenarios)
                   /\ Cardinality(EndsIn(last)) = Len(features[f].rules[r].scenarios)
                   /\ \A i \in 1..Len(RuleHookCalls("after")) :
                          RuleHookCalls("after")[i].at = last
            /\ pc = "rule_finished" =>
                   CallIndices(RuleHookCalls("after")) = HooksFor(after, "rule", f, r, 0, 1)
       /\ RuleJustFinished =>
            /\ from # 0 /\ from < last
            /\ events[last].feature = f /\ events[last].event.rule = r
            /\ OnlyScenariosOfRule(f, r, from + 1, last - 1)
            /\ Cardinality(StartsIn(last - 1)) = Len(features[f].rules[r].scenarios)
            /\ Cardinality(EndsIn(last - 1)) = Len(features[f].rules[r].scenarios)
            /\ CallIndices(RuleHookCalls("before")) = HooksFor(before, "rule", f, r, 0, 1)
            /\ CallIndices(RuleHookCalls("after")) = HooksFor(after, "rule", f, r, 0, 1)
            /\ \A i \in 1..Len(RuleHookCalls("after")) :
                   RuleHookCalls("after")[i].at = last - 1

\* C31 witness: rule R1, to which a before-hook and an after-hook of rule scope
\* apply, has just yielded its terminal event after its two scenarios ran.
C31_Witness ==
    /\ RuleJustFinished
    /\ features[fi].rules[events[LastRuleStart].event.rule].name = "R1"
    /\ Len(RuleHookCalls("before")) = 1
    /\ Len(RuleHookCalls("after")) = 1
    /\ Len(events) - LastRuleStart > 4
    /\ scenario_filter = NoFilter

\* The level of the driver that awaited a hook, read off the LifecycleContext
\* it passed: run_scenario sets the scenario, run_rule the rule only, and
\* run_feature neither.
CallLevel(c) ==
    IF c.scenario # 0 THEN "scenario" ELSE IF c.rule # 0 THEN "rule" ELSE "feature"

CallList(c) == IF c.list = "before" THEN before ELSE after

SameHookAndNode(a, b) ==
    /\ a.list = b.list /\ a.index = b.index
    /\ a.feature = b.feature /\ a.rule = b.rule /\ a.scenario = b.scenario

\* The Starting events of the runs of a scenario in positions from..to of events.
StartsOf(ref, from, to) ==
    {k \in from..to : IsScenarioStarting(events[k]) /\ ScenarioRefOf(events[k]) = ref}

\* The calls of hook k of a list made for a node.
CallsOf(list_name, k, f, r, s) ==
    {i \in 1..Len(hook_calls) :
        SameHookAndNode(hook_calls[i],
                        [list |-> list_name, index |-> k, feature |-> f, rule |-> r,
                         scenario |-> s])}

\* C32: every hook awaited has the scope of the driver that awaited it and a
\* predicate that accepts the node it was awaited for. A feature-scope or
\* rule-scope hook is awaited at most once for a node, and a scenario-scope
\* hook at most once per run of a scenario (between two of its calls for the
\* same scenario a new run of that scenario has started). When the whole run
\* is done, each matching hook of each list has been awaited exactly once per
\* feature, per rule and per scenario run.
C32_HookScopes ==
    /\ \A i \in 1..Len(hook_calls) :
          LET c == hook_calls[i]
              hook == CallList(c)[c.index]
          IN /\ hook.context = CallLevel(c)
             /\ Criteria_eval(hook, features[c.feature].name, RuleName(c.feature, c.rule),
                              IF c.scenario = 0 THEN ""
                              ELSE ScenarioNode(c.feature, c.rule, c.scenario).name)
             /\ \A j \in (i + 1)..Len(hook_calls) :
                   SameHookAndNode(c, hook_calls[j]) =>
                       /\ c.scenario # 0
                       /\ StartsOf(ScenarioRef(c.feature, c.rule, c.scenario),
                                   c.at + 1, hook_calls[j].at) # {}
    /\ pc = "done" =>
          \A name \in {"before", "after"} :
             LET list == IF name = "before" THEN before ELSE after
             IN \A f \in 1..Len(features) :
                   /\ \A k \in 1..Len(list) :
                         Cardinality(CallsOf(name, k, f, 0, 0))
                            = IF list[k].context = "feature"
                                 /\ Criteria_eval(list[k], features[f].name, "", "")
                              THEN 1 ELSE 0
                   /\ \A r \in 1..Len(features[f].rules) :
                         \A k \in 1..Len(list) :
                            Cardinality(CallsOf(name, k, f, r, 0))
                               = IF list[k].context = "rule"
                                    /\ Criteria_eval(list[k], features[f].name,
                                                     RuleName(f, r), "")
                                 THEN 1 ELSE 0
                   /\ \A r \in 0..Len(features[f].rules) :
                         \A s \in 1..Len(IF r = 0 THEN features[f].scenarios
                                         ELSE features[f].rules[r].scenarios) :
                            \A k \in 1..Len(list) :
                               Cardinality(CallsOf(name, k, f, r, s))
                                  = IF list[k].context = "scenario"
                                       /\ Criteria_eval(list[k], features[f].name,
                                                        RuleName(f, r),
                                                        ScenarioNode(f, r, s).name)
                                    THEN Cardinality(StartsOf(ScenarioRef(f, r, s), 1,
                                                              Len(events)))
                                    ELSE 0

\* C32 witness: the run is done; the scenario-scope before-hook "*" was
\* awaited once for each row of the outline S1, the rule-scope before-hook
\* for rule R1 and the feature-scope after-hook for feature F1 once each,
\* and hooks of all three scopes were awaited.
C32_Witness ==
    /\ pc = "done"
    /\ NumRows > 1
    /\ Cardinality(CallsOf("before", 2, 1, 0, 1)) = NumRows
    /\ Cardinality(CallsOf("before", 3, 1, 1, 0)) = 1
    /\ Cardinality(CallsOf("after", 4, 1, 0, 0)) = 1
    /\ Cardinality(CallsOf("after", 5, 1, 1, 2)) = 1

\* ------------------------------------------------------- the World slot

\* run_scenario is at a point where a step is about to start or to be invoked.
AtStep == pc \in {"background", "background_run", "steps", "steps_run"}

\* The World slot as run_scenario's code lets it be at each point of a run:
\* there is no World before W::new(); the slot is occupied wherever a step is
\* about to be invoked; it stays empty once a step did not succeed, and it is
\* empty for no other reason; no World outlives its scenario.
WorldSlot ==
    /\ pc \in {"scenario_before", "scenario_world"} => ~world.some
    /\ AtStep => world.some
    /\ pc \in {"background_halt", "steps_halt"} => ~world.some /\ result.type # "Success"
    /\ pc \in {"scenario_after", "scenario_end", "scenario_return"} => (world.some <=> is_success)
    /\ (InScenarioPc /\ ~world.some /\ pc \notin {"scenario_before", "scenario_world"}) =>
          /\ StepEvents(stream) # <<>>
          /\ StepEvents(stream)[Len(StepEvents(stream))].event.type
                \in {"Failed", "Skipped", "Unimplemented"}
          /\ RunStepCalls # <<>>
          /\ RunStepCalls[Len(RunStepCalls)].at = run_start + Len(stream) - 2 - Len(Terminals(stream))
    /\ (~InScenarioPc /\ pc # "aborted") => ~world.some
    /\ (stream # <<>> /\ RunStepCalls # <<>>) => RunStepCalls[1].world = <<>>

\* One step of run_scenario as far as the World slot goes: the slot is filled
\* from empty only by W::new(), when Starting is the only event of the run; the
\* World in it is replaced only by the invocation of a step; it is emptied only
\* by a step that did not succeed or by the end of the stream; and the only
\* panic that ends the run is that of W::new().unwrap().
WorldStep ==
    /\ (~world.some /\ world'.some) =>
          /\ pc = "scenario_world" /\ pc' = "background"
          /\ world' = Some(<<>>)
          /\ Len(stream) = 1
          /\ CallIndices(RunHookCalls("before")) = ScenarioHooksFrom(before, RunRef, 1)
    /\ (world.some /\ world'.some /\ world' # world) =>
          /\ pc \in {"background_run", "steps_run"}
          /\ result'.type = "Success"
          /\ world'.value = result'.world
    /\ (world.some /\ ~world'.some) =>
          \/ pc \in {"background_run", "steps_run"} /\ result'.type # "Success"
          \/ pc \in {"scenario_end", "scenario_return"} /\ ~InScenarioPc'
    /\ (pc # "aborted" /\ pc' = "aborted") => pc = "scenario_world"

\* C33: a run of run_scenario constructs its World exactly once, after the
\* before-hooks and before any step; the World of one scenario is never the
\* World of another; whenever a step is about to be invoked the slot is
\* occupied, so world.take().unwrap() never panics; the slot is empty only
\* after a step that did not succeed, and then no step is invoked any more.
C33_OneWorld == []WorldSlot /\ [][WorldStep]_vars

\* C33 witness: in the second scenario run of a feature, after a first run whose
\* step failed and left the slot empty, a step is about to be invoked with the
\* World that the background step of this run returned.
C33_Witness ==
    /\ pc = "steps_run"
    /\ world = Some(<<StepBg.value>>)
    /\ stats.scenarios.failed + stats.scenarios.skipped > 0

\* ------------------------------------------------------ the timeout race

\* The run_step call just made, as step_calls recorded it.
LastStepCall == step_calls[Len(step_calls)]

\* The handler's own outcome: what run_step returns when no timer runs.
OwnOutcome(beh, w, step) == classify(step_future(beh, w, step))

\* The winner of select over the timer and the step future when the two are
\* polled in the given order at each wake-up: a handler that does not suspend
\* completes inside the first poll; otherwise the one that is ready earlier
\* wins, and the one polled first wins when both are ready at the same wake-up.
Winner(order, timeout, beh) ==
    IF beh.blocking \/ beh.delay = 0 THEN "step"
    ELSE IF timeout.ticks < beh.delay THEN "timer"
    ELSE IF beh.delay < timeout.ticks THEN "step"
    ELSE IF order = "timer_first" THEN "timer" ELSE "step"

\* C34: whenever run_step has raced a handler against the timer, the result
\* is Failure(TimedOut) only if the handler had not completed when the timer
\* expired (it needs at least as many ticks as the timeout lasts), and a
\* handler that completes before the timer expires yields its own outcome:
\* Success with the World it returned, Skipped, or Failure(Panic). For such a
\* handler the winner does not depend on the order in which the two futures
\* are polled, and select's order (timer first) gives the result of run_step.
C34_FirstCompletionWins ==
    (last_call.made /\ last_call.func.some) =>
        LET beh == last_call.beh
            own == OwnOutcome(beh, LastStepCall.world, LastStepCall.step)
        IN /\ last_call.result = TestEvent_Failure("TimedOut") =>
                 /\ step_timeout.some
                 /\ beh.delay >= step_timeout.ticks
                 /\ Winner("timer_first", step_timeout, beh) = "timer"
           /\ (step_timeout.some /\ beh.delay < step_timeout.ticks) =>
                 /\ last_call.result = own
                 /\ own.type \in {"Success", "Skipped", "Failure"}
                 /\ own.type = "Failure" => own.kind = "Panic"
                 /\ \A order \in {"timer_first", "step_first"} :
                       Winner(order, step_timeout, beh) = "step"
           /\ ~step_timeout.some => last_call.result = own
           /\ (step_timeout.some /\ Winner("timer_first", step_timeout, beh) = "step")
                 => last_call.result = own

\* C34 witness: a handler that suspended and panicked one tick before the
\* timer expired has been reported as Failure(Panic), not as a timeout.
C34_Witness ==
    /\ last_call.made /\ last_call.func.some
    /\ step_timeout.some
    /\ ~last_call.beh.blocking
    /\ last_call.beh.delay > 0
    /\ last_call.beh.delay < step_timeout.ticks
    /\ last_call.beh.end = "panic"
    /\ last_call.result = TestEvent_Failure("Panic")

\* C34 witness: a handler that was still suspended when the timer expired has
\* been reported as Failure(TimedOut).
C34_WitnessTimedOut ==
    /\ last_call.made /\ last_call.func.some
    /\ last_call.beh.delay > step_timeout.ticks
    /\ last_call.result = TestEvent_Failure("TimedOut")

\* ------------------------------------------- Steps::run_scenario's visits

\* Two visits belong to the same run of run_scenario.
SameRun(a, b) == SameCall(a, b) /\ a.run = b.run /\ a.run # 0

\* C35 (as stated): after the first step of a scenario whose result is not
\* Pass (Fail, Skipped or Unimplemented), no later step of that scenario has
\* its step function called, and no later step is reported to the output
\* visitor: visit_step and visit_step_result are not called again for that
\* run of the scenario.
C35_LibSkipCascade ==
    \A u \in 1..Len(visits) :
        (visits[u].call = "visit_step_result" /\ visits[u].result # "Pass") =>
            /\ \A v \in (u + 1)..Len(visits) :
                  SameRun(visits[u], visits[v])
                     => visits[v].call \notin {"visit_step", "visit_step_result"}
            /\ \A c \in 1..Len(test_calls) :
                  (SameCall(test_calls[c], visits[u]) /\ test_calls[c].run = visits[u].run)
                     => test_calls[c].index <= visits[u].step

\* The part of C35 that the code keeps: after a step whose result is not Pass,
\* no step function is called for a later step of that run.
C35_NoLaterCall ==
    \A u \in 1..Len(visits) :
        (visits[u].call = "visit_step_result" /\ visits[u].result # "Pass") =>
            \A c \in 1..Len(test_calls) :
                (SameCall(test_calls[c], visits[u]) /\ test_calls[c].run = visits[u].run)
                   => test_calls[c].index <= visits[u].step

\* The visits made for file f, and the positions in visits of the calls of a
\* visitor method.
FileVisits(f) ==
    LET In(v) == v.file = f /\ v.call # "visit_start"
    IN SelectSeq(visits, In)

CallsTo(call) == {v \in 1..Len(visits) : visits[v].call = call}

\* C36: a feature file that does not parse is reported by one call of
\* visit_feature_error and nothing else (no visit_feature, no scenario, no
\* step), and makes Steps::run return false. It does not end the run: the
\* loop goes on to the next file, a panic never comes from such a file, and
\* when run returns every file that parses has had its visit_feature and
\* visit_feature_end. visit_start is called exactly once, first, and
\* visit_finish exactly once, last, when run returns.
C36_ParseFailure ==
    /\ \A f \in 1..Len(sr_files) :
          sr_files[f].status = "invalid" =>
             /\ FileVisits(f) = IF sr_fi > f
                                THEN <<[call |-> "visit_feature_error", file |-> f, rule |-> 0,
                                        run |-> 0, step |-> 0, result |-> ""]>>
                                ELSE <<>>
             /\ sr_fi > f => ~sr_is_success
             /\ sr_pc = "aborted" => sr_fi # f
    /\ sr_pc = "returned" =>
          /\ \A f \in 1..Len(sr_files) :
                sr_files[f].status = "ok" =>
                   /\ Len(SelectSeq(FileVisits(f), LAMBDA v : v.call = "visit_feature")) = 1
                   /\ Len(SelectSeq(FileVisits(f), LAMBDA v : v.call = "visit_feature_end")) = 1
                   /\ FileVisits(f)[1].call = "visit_feature"
                   /\ FileVisits(f)[Len(FileVisits(f))].call = "visit_feature_end"
          /\ CallsTo("visit_feature_error")
                = {v \in 2..(Len(visits) - 1) : sr_files[visits[v].file].status = "invalid"}
          /\ CallsTo("visit_finish") = {Len(visits)}
    /\ sr_pc # "returned" => CallsTo("visit_finish") = {}
    /\ sr_pc # "start" => CallsTo("visit_start") = {1}
    /\ sr_pc = "start" => visits = <<>>

\* C36 witness: run has returned false for a file that does not parse followed
\* by feature A, which was run to its end with no failed step.
C36_Witness ==
    /\ sr_pc = "returned"
    /\ sr_files[1].status = "invalid"
    /\ sr_files[2].status = "ok"
    /\ ~sr_is_success
    /\ visits[2].call = "visit_feature_error"
    /\ visits[3].call = "visit_feature"
    /\ \A v \in 1..Len(visits) : visits[v].result # "Fail"
    /\ Cardinality(CallsTo("visit_scenario_end")) = 2

\* The calls of helper functions made in the run_scenarios call in progress,
\* and the helper function and the scenario of such a call.
HelperVisits ==
    {v \in 1..Len(visits) :
        /\ visits[v].call \in {"before_fn", "after_fn"}
        /\ visits[v].file = sr_fi /\ visits[v].rule = sr_ri}

HelperOf(v) ==
    IF visits[v].call = "before_fn" THEN BeforeFns[visits[v].step]
    ELSE AfterFns[visits[v].step]

HelperScenario(v) == futures[visits[v].run].scenario

\* C37 (as stated): a before/after hook declared without a tag rule applies
\* to every scenario, with tags or without: whenever such a helper function
\* is called for a scenario, its closure is called.
C37_UntaggedHookApplies ==
    rs_pc = "join_all" =>
        \A v \in HelperVisits :
            HelperOf(v).tag_rule = <<>> => visits[v].result = "closure called"

\* The part of C37 that the code keeps, with the empty chunks of the rule
\* counted as tokens: the closure of a helper function is called iff the
\* scenario has no tags or every chunk of the rule between two spaces, `and`
\* and `or` excepted, is one of its tags.
C37_TagRule ==
    rs_pc = "join_all" =>
        \A v \in HelperVisits :
            LET rule == HelperOf(v).tag_rule
                spaces == {j \in 1..Len(rule) : rule[j] = " "}
                tokens == { IF j + 1 <= Len(rule) /\ rule[j + 1] # " " THEN rule[j + 1] ELSE "" :
                              j \in {0} \cup spaces }
            IN visits[v].result = "closure called"
                  <=> \/ ~HelperScenario(v).tags.some
                      \/ \A t \in tokens \ {"and", "or"} : t \in HelperScenario(v).tags.value

\* The runs of run_scenario that have made a visit, each given by its file,
\* its rule and its index in `futures`; the visits of a run, in order.
RunKeys ==
    { [file |-> visits[v].file, rule |-> visits[v].rule, run |-> visits[v].run] :
        v \in {u \in 1..Len(visits) : visits[u].run # 0} }

RunVisits(key) ==
    LET In(v) == v.file = key.file /\ v.rule = key.rule /\ v.run = key.run
    IN SelectSeq(visits, In)

CountCalls(rv, call) == Cardinality({k \in 1..Len(rv) : rv[k].call = call})

\* The position in a run's visits of the first step result that is not Pass
\* (0: there is none).
FirstNotPass(rv) ==
    LET hits == {k \in 1..Len(rv) : rv[k].call = "visit_step_result" /\ rv[k].result # "Pass"}
    IN IF hits = {} THEN 0 ELSE CHOOSE k \in hits : \A n \in hits : k <= n

\* The run of a key has come to its end: it is not a future of the
\* run_scenarios call in progress that is still to be polled to its end.
RunEnded(key) ==
    \/ sr_pc = "returned"
    \/ key.file < sr_fi
    \/ key.rule < sr_ri
    \/ /\ key.file = sr_fi /\ key.rule = sr_ri
       /\ \/ rs_pc \in {"joined", "idle"}
          \/ rs_pc = "join_all" /\ tasks[key.run].pc = "done"

\* C38: in every run of run_scenario, whatever the results of its steps,
\* visit_scenario is the first call and is made once; visit_scenario_skipped
\* is called at most once: not at all if the first step result that is not
\* Pass is Fail, and once, right after that result, if it is Skipped or
\* Unimplemented; visit_scenario_end is called at most once, and when the run
\* has ended it has been called once, as the last call of the run, right
\* after the calls of all after functions in order.
C38_ScenarioVisits ==
    \A key \in RunKeys :
        LET rv == RunVisits(key)
            first == FirstNotPass(rv)
            n == Len(rv)
        IN /\ rv[1].call = "visit_scenario"
           /\ CountCalls(rv, "visit_scenario") = 1
           /\ CountCalls(rv, "visit_scenario_skipped") <= 1
           /\ \A k \in 1..n :
                 rv[k].call = "visit_scenario_skipped" =>
                    /\ first # 0 /\ k = first + 1
                    /\ rv[first].result \in {"Skipped", "Unimplemented"}
           /\ (first # 0 /\ rv[first].result = "Fail")
                 => CountCalls(rv, "visit_scenario_skipped") = 0
           /\ (first # 0 /\ rv[first].result # "Fail")
                 => CountCalls(rv, "visit_scenario_skipped") = 1
           /\ CountCalls(rv, "visit_scenario_end") <= 1
           /\ \A k \in 1..n :
                 rv[k].call = "visit_scenario_end" =>
                    /\ k = n
                    /\ k > Len(AfterFns)
                    /\ \A a \in 1..Len(AfterFns) :
                          /\ rv[k - Len(AfterFns) + a - 1].call = "after_fn"
                          /\ rv[k - Len(AfterFns) + a - 1].step = a
           /\ CountCalls(rv, "after_fn")
                 = IF rv[n].call = "visit_scenario_end" THEN Len(AfterFns) ELSE 0
           /\ (RunEnded(key) /\ sr_pc # "aborted") => rv[n].call = "visit_scenario_end"

\* C38 witness: a run of run_scenario has ended in which a step without a
\* function came after a failed step: the scenario was not reported as
\* skipped, and the after function and visit_scenario_end came last.
C38_Witness ==
    \E key \in RunKeys :
        LET rv == RunVisits(key)
        IN /\ rv[Len(rv)].call = "visit_scenario_end"
           /\ rv[Len(rv) - 1].call = "after_fn"
           /\ FirstNotPass(rv) # 0
           /\ rv[FirstNotPass(rv)].result = "Fail"
           /\ \E k \in 1..Len(rv) : rv[k].result = "Unimplemented"
           /\ CountCalls(rv, "visit_scenario_skipped") = 0

\* C38 witness: a run has ended in which a step was skipped and a later step
\* has no function: visit_scenario_skipped was called once.
C38_WitnessSkipped ==
    \E key \in RunKeys :
        LET rv == RunVisits(key)
        IN /\ rv[Len(rv)].call = "visit_scenario_end"
           /\ FirstNotPass(rv) # 0
           /\ rv[FirstNotPass(rv)].result = "Skipped"
           /\ \E k \in 1..Len(rv) : rv[k].result = "Unimplemented"
           /\ CountCalls(rv, "visit_scenario_skipped") = 1

====
